---------------------------- MODULE Spec2Model ----------------------------
(***************************************************************************)
(* A model of the LCA wizard: the spreadsheet worker and its message       *)
(* protocol, the consumer that captures sheet chunks, schema mapping,      *)
(* validation, KPI computation, the step-gated wizard store, locking of a  *)
(* baseline snapshot and the session-persisted subset of the state.        *)
(*                                                                         *)
(* Conventions.  A JavaScript number is an exact rational [n, d] in lowest *)
(* terms with d > 0; d = 0 stands for the non-finite numbers (n = 0 NaN,   *)
(* n = 1 Infinity, n = -1 -Infinity).  A JavaScript string is a TLA+       *)
(* string; the string operations work on its characters, which the table   *)
(* chars gives for every string that occurs (TLC cannot look inside a      *)
(* string).  A JavaScript value (a cell) is a record [t, n, d, s] tagged   *)
(* with its type.                                                          *)
(***************************************************************************)
EXTENDS Integers, Sequences, FiniteSets, TLC

-----------------------------------------------------------------------------
(* Numbers *)

Abs(i) == IF i < 0 THEN -i ELSE i

RECURSIVE GCD(_, _)
GCD(a, b) == IF b = 0 THEN a ELSE GCD(b, a % b)

Rat(n, d) ==
  LET g == GCD(Abs(n), d) IN [n |-> n \div g, d |-> d \div g]

Num(i) == [n |-> i, d |-> 1]
NaN == [n |-> 0, d |-> 0]
isFinite(x) == x.d # 0
isNaN(x) == x.d = 0 /\ x.n = 0

RatAdd(a, b) ==
  LET g == GCD(a.d, b.d) IN
  Rat(a.n * (b.d \div g) + b.n * (a.d \div g), (a.d \div g) * b.d)

RatMul(a, b) ==
  LET g1 == GCD(Abs(a.n), b.d)
      g2 == GCD(Abs(b.n), a.d)
  IN  [n |-> (a.n \div g1) * (b.n \div g2), d |-> (a.d \div g2) * (b.d \div g1)]

\* a / b for a finite a and a finite, non-zero b
RatDiv(a, b) ==
  RatMul(a, IF b.n < 0 THEN [n |-> -b.d, d |-> -b.n] ELSE [n |-> b.d, d |-> b.n])

\* comparisons of finite numbers (integer parts first, then the fractions, so
\* that large values do not overflow); any comparison with NaN is false
RatLt(a, b) ==
  /\ isFinite(a) /\ isFinite(b)
  /\ LET ia == a.n \div a.d
         ib == b.n \div b.d
     IN  IF ia # ib THEN ia < ib ELSE (a.n % a.d) * b.d < (b.n % b.d) * a.d
RatLe(a, b) == isFinite(a) /\ isFinite(b) /\ ~RatLt(b, a)
RatGt(a, b) == RatLt(b, a)
RatGe(a, b) == RatLe(b, a)
RatMin(a, b) == IF RatLt(b, a) THEN b ELSE a

\* Math.round: the nearest integer, a half rounded towards +Infinity
MathRound(x) == Num((2 * x.n + x.d) \div (2 * x.d))

-----------------------------------------------------------------------------
(* Strings *)

\* the characters of every string of the model
chars ==
     "" :> <<>> @@
     "Unknown" :> <<"U","n","k","n","o","w","n">> @@
     "(none)" :> <<"(","n","o","n","e",")">> @@
     "undefined" :> <<"u","n","d","e","f","i","n","e","d">> @@
     "null" :> <<"n","u","l","l">> @@
     "product" :> <<"p","r","o","d","u","c","t">> @@
     "Product" :> <<"P","r","o","d","u","c","t">> @@
     "sku" :> <<"s","k","u">> @@
     "item" :> <<"i","t","e","m">> @@
     "model" :> <<"m","o","d","e","l">> @@
     "Category" :> <<"C","a","t","e","g","o","r","y">> @@
     "category" :> <<"c","a","t","e","g","o","r","y">> @@
     "segment" :> <<"s","e","g","m","e","n","t">> @@
     "family" :> <<"f","a","m","i","l","y">> @@
     "type" :> <<"t","y","p","e">> @@
     "Transport_kgCO2e" :> <<"T","r","a","n","s","p","o","r","t","_","k","g","C","O","2","e">> @@
     "transport co2" :> <<"t","r","a","n","s","p","o","r","t"," ","c","o","2">> @@
     "transport kgco2e" :> <<"t","r","a","n","s","p","o","r","t"," ","k","g","c","o","2","e">> @@
     "co2e transport" :> <<"c","o","2","e"," ","t","r","a","n","s","p","o","r","t">> @@
     "logistics co2" :> <<"l","o","g","i","s","t","i","c","s"," ","c","o","2">> @@
     "shipping co2" :> <<"s","h","i","p","p","i","n","g"," ","c","o","2">> @@
     "Materials_kgCO2e" :> <<"M","a","t","e","r","i","a","l","s","_","k","g","C","O","2","e">> @@
     "materials co2" :> <<"m","a","t","e","r","i","a","l","s"," ","c","o","2">> @@
     "materials kgco2e" :> <<"m","a","t","e","r","i","a","l","s"," ","k","g","c","o","2","e">> @@
     "co2e materials" :> <<"c","o","2","e"," ","m","a","t","e","r","i","a","l","s">> @@
     "material footprint" :> <<"m","a","t","e","r","i","a","l"," ","f","o","o","t","p","r","i","n","t">> @@
     "bom co2" :> <<"b","o","m"," ","c","o","2">> @@
     "Production_kgCO2e" :> <<"P","r","o","d","u","c","t","i","o","n","_","k","g","C","O","2","e">> @@
     "production co2" :> <<"p","r","o","d","u","c","t","i","o","n"," ","c","o","2">> @@
     "production kgco2e" :> <<"p","r","o","d","u","c","t","i","o","n"," ","k","g","c","o","2","e">> @@
     "co2e production" :> <<"c","o","2","e"," ","p","r","o","d","u","c","t","i","o","n">> @@
     "manufacturing co2" :> <<"m","a","n","u","f","a","c","t","u","r","i","n","g"," ","c","o","2">> @@
     "factory co2" :> <<"f","a","c","t","o","r","y"," ","c","o","2">> @@
     "Use_kWh_per_year" :> <<"U","s","e","_","k","W","h","_","p","e","r","_","y","e","a","r">> @@
     "use kwh" :> <<"u","s","e"," ","k","w","h">> @@
     "kwh per year" :> <<"k","w","h"," ","p","e","r"," ","y","e","a","r">> @@
     "annual kwh" :> <<"a","n","n","u","a","l"," ","k","w","h">> @@
     "energy use" :> <<"e","n","e","r","g","y"," ","u","s","e">> @@
     "electricity use" :> <<"e","l","e","c","t","r","i","c","i","t","y"," ","u","s","e">> @@
     "Water_L" :> <<"W","a","t","e","r","_","L">> @@
     "water" :> <<"w","a","t","e","r">> @@
     "water_l" :> <<"w","a","t","e","r","_","l">> @@
     "water (l)" :> <<"w","a","t","e","r"," ","(","l",")">> @@
     "liters" :> <<"l","i","t","e","r","s">> @@
     "consumption water" :> <<"c","o","n","s","u","m","p","t","i","o","n"," ","w","a","t","e","r">> @@
     "Recycling_Quota_%" :> <<"R","e","c","y","c","l","i","n","g","_","Q","u","o","t","a","_","%">> @@
     "recycling quota" :> <<"r","e","c","y","c","l","i","n","g"," ","q","u","o","t","a">> @@
     "recycling %" :> <<"r","e","c","y","c","l","i","n","g"," ","%">> @@
     "recycling rate" :> <<"r","e","c","y","c","l","i","n","g"," ","r","a","t","e">> @@
     "Local_Quota_%" :> <<"L","o","c","a","l","_","Q","u","o","t","a","_","%">> @@
     "local quota" :> <<"l","o","c","a","l"," ","q","u","o","t","a">> @@
     "local %" :> <<"l","o","c","a","l"," ","%">> @@
     "local share" :> <<"l","o","c","a","l"," ","s","h","a","r","e">> @@
     "EU_Label" :> <<"E","U","_","L","a","b","e","l">> @@
     "eu label" :> <<"e","u"," ","l","a","b","e","l">> @@
     "energy label" :> <<"e","n","e","r","g","y"," ","l","a","b","e","l">> @@
     "transport" :> <<"t","r","a","n","s","p","o","r","t">> @@
     "materials" :> <<"m","a","t","e","r","i","a","l","s">> @@
     "production" :> <<"p","r","o","d","u","c","t","i","o","n">> @@
     "use" :> <<"u","s","e">> @@
     "kwh" :> <<"k","w","h">> @@
     "cook" :> <<"c","o","o","k">> @@
     "cool" :> <<"c","o","o","l">> @@
     "fridge" :> <<"f","r","i","d","g","e">> @@
     "wash" :> <<"w","a","s","h">> @@
     "DummyData.xlsx" :> <<"D","u","m","m","y","D","a","t","a",".","x","l","s","x">> @@
     "Data" :> <<"D","a","t","a">> @@
     "Cooker A" :> <<"C","o","o","k","e","r"," ","A">> @@
     "Cooking" :> <<"C","o","o","k","i","n","g">> @@
     "Fridge B" :> <<"F","r","i","d","g","e"," ","B">> @@
     "Cooling" :> <<"C","o","o","l","i","n","g">> @@
     "Washer C" :> <<"W","a","s","h","e","r"," ","C">> @@
     "Washing" :> <<"W","a","s","h","i","n","g">> @@
     "A++" :> <<"A","+","+">> @@
     "A+" :> <<"A","+">> @@
     "A" :> <<"A">> @@
     "a.xlsx" :> <<"a",".","x","l","s","x">> @@
     "S1" :> <<"S","1">> @@
     "a.xlsx::S1" :> <<"a",".","x","l","s","x",":",":","S","1">> @@
     "b.xlsx" :> <<"b",".","x","l","s","x">> @@
     "b.xlsx::S1" :> <<"b",".","x","l","s","x",":",":","S","1">> @@
     "S2" :> <<"S","2">> @@
     "b.xlsx::S2" :> <<"b",".","x","l","s","x",":",":","S","2">> @@
     "bad.xlsx" :> <<"b","a","d",".","x","l","s","x">> @@
     "DummyData.xlsx::Data" :> <<"D","u","m","m","y","D","a","t","a",".","x","l","s","x",":",":","D","a","t","a">> @@
     "Transport kgCO2e" :> <<"T","r","a","n","s","p","o","r","t"," ","k","g","C","O","2","e">> @@
     "Materials kgCO2e" :> <<"M","a","t","e","r","i","a","l","s"," ","k","g","C","O","2","e">> @@
     "Production kgCO2e" :> <<"P","r","o","d","u","c","t","i","o","n"," ","k","g","C","O","2","e">> @@
     "kWh per year" :> <<"k","W","h"," ","p","e","r"," ","y","e","a","r">> @@
     "X" :> <<"X">> @@
     "Y" :> <<"Y">> @@
     "Z" :> <<"Z">> @@
     "1,200" :> <<"1",",","2","0","0">> @@
     "50" :> <<"5","0">> @@
     "100" :> <<"1","0","0">> @@
     "S" :> <<"S">> @@
     "abc" :> <<"a","b","c">> @@
     "n/a" :> <<"n","/","a">> @@
     "Upload" :> <<"U","p","l","o","a","d">> @@
     "Upload::Data" :> <<"U","p","l","o","a","d",":",":","D","a","t","a">> @@
     "Shipping CO2 (kg)" :> <<"S","h","i","p","p","i","n","g"," ","C","O","2"," ","(","k","g",")">> @@
     "Notes" :> <<"N","o","t","e","s">> @@
     "Model Type" :> <<"M","o","d","e","l"," ","T","y","p","e">> @@
     "1.5" :> <<"1",".","5">> @@
     "-3" :> <<"-","3">> @@
     "-" :> <<"-">> @@
     "missing required value" :> <<"m","i","s","s","i","n","g"," ","r","e","q","u","i","r","e","d"," ","v","a","l","u","e">> @@
     "negative value" :> <<"n","e","g","a","t","i","v","e"," ","v","a","l","u","e">> @@
     "suspiciously large" :> <<"s","u","s","p","i","c","i","o","u","s","l","y"," ","l","a","r","g","e">> @@
     "Missing required value" :> <<"M","i","s","s","i","n","g"," ","r","e","q","u","i","r","e","d"," ","v","a","l","u","e">> @@
     "Negative value" :> <<"N","e","g","a","t","i","v","e"," ","v","a","l","u","e">> @@
     "Suspiciously large" :> <<"S","u","s","p","i","c","i","o","u","s","l","y"," ","l","a","r","g","e">> @@
     "x" :> <<"x">> @@
     "y" :> <<"y">> @@
     "SKU" :> <<"S","K","U">>

\* the string made of the characters cs
Str(cs) == CHOOSE s \in DOMAIN chars : chars[s] = cs

UpperChars == <<"A","B","C","D","E","F","G","H","I","J","K","L","M",
                "N","O","P","Q","R","S","T","U","V","W","X","Y","Z">>
LowerChars == <<"a","b","c","d","e","f","g","h","i","j","k","l","m",
                "n","o","p","q","r","s","t","u","v","w","x","y","z">>
DigitChars == <<"0","1","2","3","4","5","6","7","8","9">>
WhiteSpace == {" ", "\t", "\n", "\r"}

toLowerChar(c) ==
  IF \E i \in DOMAIN UpperChars : UpperChars[i] = c
  THEN LowerChars[CHOOSE i \in DOMAIN UpperChars : UpperChars[i] = c]
  ELSE c

\* the operations below take and return character sequences
toLowerCase(cs) == [i \in DOMAIN cs |-> toLowerChar(cs[i])]

\* cs.includes(sub)
includes(cs, sub) ==
  \E i \in 0..(Len(cs) - Len(sub)) : SubSeq(cs, i + 1, i + Len(sub)) = sub

startsWith(cs, p) == Len(p) <= Len(cs) /\ SubSeq(cs, 1, Len(p)) = p

trim(cs) ==
  LET keep == {i \in DOMAIN cs : cs[i] \notin WhiteSpace} IN
  IF keep = {} THEN <<>>
  ELSE SubSeq(cs, CHOOSE i \in keep : \A j \in keep : i <= j,
                  CHOOSE i \in keep : \A j \in keep : j <= i)

-----------------------------------------------------------------------------
(* JavaScript values *)

Undefined == [n |-> 0, d |-> 1, s |-> "", t |-> "undefined"]
Null == [n |-> 0, d |-> 1, s |-> "", t |-> "null"]
NumV(x) == [n |-> x.n, d |-> x.d, s |-> "", t |-> "number"]
StrV(s) == [n |-> 0, d |-> 1, s |-> s, t |-> "string"]
numOf(v) == [n |-> v.n, d |-> v.d]

isNullish(v) == v.t \in {"undefined", "null"}

\* the values that count as false in a condition (0 and NaN both have n = 0)
isFalsy(v) ==
  \/ isNullish(v)
  \/ v.t = "string" /\ v.s = ""
  \/ v.t = "number" /\ v.n = 0

\* a ?? b
Coalesce(a, b) == IF isNullish(a) THEN b ELSE a

RECURSIVE natChars(_)
natChars(i) ==
  IF i < 10 THEN <<DigitChars[i + 1]>>
  ELSE Append(natChars(i \div 10), DigitChars[(i % 10) + 1])

RECURSIVE fracChars(_, _, _)
\* the decimal digits of r / d (0 <= r < d), for a fraction that terminates
fracChars(r, d, left) ==
  IF r = 0 \/ left = 0 THEN <<>>
  ELSE <<DigitChars[((r * 10) \div d) + 1]>> \o fracChars((r * 10) % d, d, left - 1)

\* String(x) of a finite number whose decimal expansion terminates
numChars(x) ==
  LET a == Abs(x.n)
      int == natChars(a \div x.d)
      frac == fracChars(a % x.d, x.d, 9)
  IN  (IF x.n < 0 THEN <<"-">> ELSE <<>>) \o int
        \o (IF frac = <<>> THEN <<>> ELSE <<".">> \o frac)

\* the characters of String(v)
stringChars(v) ==
  CASE v.t = "string" -> chars[v.s]
    [] v.t = "undefined" -> chars["undefined"]
    [] v.t = "null" -> chars["null"]
    [] v.t = "number" /\ v.d # 0 -> numChars(numOf(v))
    [] v.t = "number" /\ v.d = 0 /\ v.n = 0 -> <<"N","a","N">>

\* String(v)
jsString(v) == IF v.t = "string" THEN v.s ELSE Str(stringChars(v))

\* obj[key]
Get(obj, key) == IF key \in DOMAIN obj THEN obj[key] ELSE Undefined

-----------------------------------------------------------------------------
(* mapping/synonyms.ts *)

synonymTable ==
  << [target |-> "Product",
      syns |-> <<"product", "sku", "item", "model">>],
     [target |-> "Category",
      syns |-> <<"category", "segment", "family", "type">>],
     [target |-> "Transport_kgCO2e",
      syns |-> <<"transport co2", "transport kgco2e", "co2e transport", "logistics co2", "shipping co2">>],
     [target |-> "Materials_kgCO2e",
      syns |-> <<"materials co2", "materials kgco2e", "co2e materials", "material footprint", "bom co2">>],
     [target |-> "Production_kgCO2e",
      syns |-> <<"production co2", "production kgco2e", "co2e production", "manufacturing co2", "factory co2">>],
     [target |-> "Use_kWh_per_year",
      syns |-> <<"use kwh", "kwh per year", "annual kwh", "energy use", "electricity use">>],
     [target |-> "Water_L",
      syns |-> <<"water", "water_l", "water (l)", "liters", "consumption water">>],
     [target |-> "Recycling_Quota_%",
      syns |-> <<"recycling quota", "recycling %", "recycling rate">>],
     [target |-> "Local_Quota_%",
      syns |-> <<"local quota", "local %", "local share">>],
     [target |-> "EU_Label",
      syns |-> <<"eu label", "energy label">>] >>

\* the class of a character under the pattern /\s+|[_-]+/
SepClass(c) ==
  IF c \in WhiteSpace THEN "space"
  ELSE IF c \in {"_", "-"} THEN "dash"
  ELSE "none"

\* cs.replace(/\s+|[_-]+/g, ' '): every maximal run of whitespace, and every
\* maximal run of underscores and hyphens, becomes one space
replaceSeparators(cs) ==
  LET F[i \in 0..Len(cs)] ==
        IF i = 0 THEN <<>>
        ELSE IF SepClass(cs[i]) = "none" THEN Append(F[i - 1], cs[i])
        ELSE IF i > 1 /\ SepClass(cs[i - 1]) = SepClass(cs[i]) THEN F[i - 1]
        ELSE Append(F[i - 1], " ")
  IN  F[Len(cs)]

\* the characters of normalizeHeader(h)
normalizeHeader(h) == trim(replaceSeparators(toLowerCase(chars[h])))

-----------------------------------------------------------------------------
(* mapping/mapper.ts: suggestMapping *)

Targets == [i \in DOMAIN synonymTable |-> synonymTable[i].target]

requiredTargets == SubSeq(Targets, 1, 6)

\* fromHeader: a header, or null
NoHeader == [some |-> FALSE, h |-> ""]
Header(h) == [some |-> TRUE, h |-> h]

targetSyns(i) ==
  <<normalizeHeader(synonymTable[i].target)>>
    \o [j \in DOMAIN synonymTable[i].syns |-> normalizeHeader(synonymTable[i].syns[j])]

headerScore(syns, hn) ==
  LET score == IF \E j \in DOMAIN syns : includes(hn, syns[j]) THEN Num(1) ELSE Num(0)
      exact == IF \E j \in DOMAIN syns : syns[j] = hn THEN Rat(1, 2) ELSE Num(0)
  IN  RatAdd(score, exact)

\* bestHeader with >= for >: the last header with the highest score
bestHeaderLast(syns, headers) ==
  LET B[k \in 0..Len(headers)] ==
        IF k = 0 THEN [from |-> NoHeader, score |-> Num(0)]
        ELSE LET sc == headerScore(syns, normalizeHeader(headers[k])) IN
             IF RatGe(sc, B[k - 1].score) /\ RatGt(sc, Num(0))
             THEN [from |-> Header(headers[k]), score |-> sc]
             ELSE B[k - 1]
  IN  B[Len(headers)]

\* the loop over the headers: the first header with the highest score
bestHeader(syns, headers) ==
  LET B[k \in 0..Len(headers)] ==
        IF k = 0 THEN [from |-> NoHeader, score |-> Num(0)]
        ELSE LET sc == headerScore(syns, normalizeHeader(headers[k])) IN
             IF RatGt(sc, B[k - 1].score)
             THEN [from |-> Header(headers[k]), score |-> sc]
             ELSE B[k - 1]
  IN  B[Len(headers)]

\* suggestMapping without Math.min(1, ...)
suggestMappingUncapped(headers) ==
  [i \in DOMAIN synonymTable |->
     LET best == bestHeader(targetSyns(i), headers) IN
     [target |-> synonymTable[i].target,
      fromHeader |-> best.from,
      confidence |-> best.score]]

suggestMapping(headers) ==
  [i \in DOMAIN synonymTable |->
     LET best == bestHeader(targetSyns(i), headers) IN
     [target |-> synonymTable[i].target,
      fromHeader |-> best.from,
      confidence |-> RatMin(Num(1), best.score)]]

-----------------------------------------------------------------------------
(* mapping/mapper.ts: applyMapping *)

\* Object.fromEntries(suggestions.map(s => [s.target, s.fromHeader || undefined])):
\* the header of the last suggestion for the target, when it has a non-empty one
fieldFrom(mapping, target) ==
  LET idx == {i \in DOMAIN mapping.suggestions : mapping.suggestions[i].target = target} IN
  IF idx = {} THEN NoHeader
  ELSE LET last == CHOOSE i \in idx : \A j \in idx : j <= i
           from == mapping.suggestions[last].fromHeader
       IN  IF from.some /\ from.h # "" THEN from ELSE NoHeader

\* r[fieldFrom[target]]: an absent header reads the property named "undefined"
cellOf(r, from) == Get(r, IF from.some THEN from.h ELSE "undefined")

\* missing over all ten targets instead of requiredTargets
missingTargetsAll(mapping) ==
  SelectSeq(Targets, LAMBDA t : ~fieldFrom(mapping, t).some)

missingTargets(mapping) ==
  SelectSeq(requiredTargets, LAMBDA t : ~fieldFrom(mapping, t).some)

\* str.replace(/,/g, '.').replace(/[^0-9.-]/g, '')
cleanNumeric(cs) ==
  LET dotted == [i \in DOMAIN cs |-> IF cs[i] = "," THEN "." ELSE cs[i]]
      okChar(c) == c \in {"0","1","2","3","4","5","6","7","8","9",".","-"}
  IN  SelectSeq(dotted, okChar)

digitValue(c) == (CHOOSE i \in DOMAIN DigitChars : DigitChars[i] = c) - 1

RECURSIVE digitsValue(_)
digitsValue(ds) ==
  IF ds = <<>> THEN 0
  ELSE 10 * digitsValue(SubSeq(ds, 1, Len(ds) - 1)) + digitValue(ds[Len(ds)])

RECURSIVE pow10(_)
pow10(k) == IF k = 0 THEN 1 ELSE 10 * pow10(k - 1)

\* Number(str) for a text of digits, dots and minus signs: the empty text is
\* 0; an optional minus sign, then digits with at most one dot and at least
\* one digit, is that decimal number; anything else is NaN
parseNumber(cs) ==
  LET neg == cs # <<>> /\ cs[1] = "-"
      body == IF neg THEN Tail(cs) ELSE cs
      dots == {i \in DOMAIN body : body[i] = "."}
      digits == SelectSeq(body, LAMBDA c : c \notin {".", "-"})
      after == IF dots = {} THEN 0 ELSE Len(body) - (CHOOSE i \in dots : TRUE)
      value == Rat(digitsValue(digits), pow10(after))
  IN  IF cs = <<>> THEN Num(0)
      ELSE IF \/ \E i \in DOMAIN body : body[i] = "-"
              \/ Cardinality(dots) > 1
              \/ digits = <<>>
           THEN NaN
      ELSE IF neg THEN [n |-> -value.n, d |-> value.d] ELSE value

toNum(v) ==
  IF isNullish(v) \/ (v.t = "string" /\ v.s = "") THEN Null
  ELSE IF v.t = "number" THEN v
  ELSE LET n == parseNumber(cleanNumeric(stringChars(v))) IN
       IF isFinite(n) THEN NumV(n) ELSE Null

toCat(v) ==
  LET cs == toLowerCase(IF isFalsy(v) THEN <<>> ELSE stringChars(v)) IN
  IF startsWith(cs, chars["cook"]) THEN "Cooking"
  ELSE IF startsWith(cs, chars["cool"]) \/ includes(cs, chars["fridge"]) THEN "Cooling"
  ELSE IF startsWith(cs, chars["wash"]) THEN "Washing"
  ELSE "Unknown"

NumericTargets == {Targets[i] : i \in 3..9}

\* one record of recs: a function of the canonical fields
mapRow(r, mapping) ==
  LET from(t) == fieldFrom(mapping, t)
      label == jsString(Coalesce(cellOf(r, from("EU_Label")), StrV("")))
  IN  [t \in {Targets[i] : i \in DOMAIN Targets} |->
         CASE t = "Product" ->
                StrV(jsString(IF from(t).some THEN Get(r, from(t).h)
                              ELSE Coalesce(Get(r, "Product"), StrV(""))))
           [] t = "Category" ->
                StrV(toCat(IF from(t).some THEN Get(r, from(t).h) ELSE Get(r, "Category")))
           [] t = "EU_Label" -> IF label = "" THEN Null ELSE StrV(label)
           [] OTHER -> toNum(cellOf(r, from(t)))]

applyMapping(rows, mapping) ==
  [records |-> [k \in DOMAIN rows |-> mapRow(rows[k], mapping)],
   missing |-> missingTargets(mapping)]

-----------------------------------------------------------------------------
(* validation/validator.ts: validate *)

SuspiciouslyLarge == 10000000

requiredNumeric == SubSeq(Targets, 3, 6)

\* fieldIssues whose limit for a large value is inclusive
fieldIssuesLargeInclusive(row, f, v) ==
  IF v.t = "null" \/ (v.t = "number" /\ isNaN(numOf(v)))
  THEN <<[rowIndex |-> row, field |-> f, severity |-> "error", message |-> "Missing required value"]>>
  ELSE IF v.t = "number" /\ RatLt(numOf(v), Num(0))
  THEN <<[rowIndex |-> row, field |-> f, severity |-> "error", message |-> "Negative value"]>>
  ELSE IF v.t = "number" /\ RatGe(numOf(v), Num(SuspiciouslyLarge))
  THEN <<[rowIndex |-> row, field |-> f, severity |-> "warning", message |-> "Suspiciously large"]>>
  ELSE <<>>

\* the issues of one field of one record: at most one
fieldIssues(row, f, v) ==
  IF v.t = "null" \/ (v.t = "number" /\ isNaN(numOf(v)))
  THEN <<[rowIndex |-> row, field |-> f, severity |-> "error", message |-> "Missing required value"]>>
  ELSE IF v.t = "number" /\ RatLt(numOf(v), Num(0))
  THEN <<[rowIndex |-> row, field |-> f, severity |-> "error", message |-> "Negative value"]>>
  ELSE IF v.t = "number" /\ RatGt(numOf(v), Num(SuspiciouslyLarge))
  THEN <<[rowIndex |-> row, field |-> f, severity |-> "warning", message |-> "Suspiciously large"]>>
  ELSE <<>>

RECURSIVE recordIssues(_, _, _)
recordIssues(r, row, k) ==
  IF k > Len(requiredNumeric) THEN <<>>
  ELSE fieldIssues(row, requiredNumeric[k], r[requiredNumeric[k]])
         \o recordIssues(r, row, k + 1)

RECURSIVE allIssues(_, _)
allIssues(records, idx) ==
  IF idx > Len(records) THEN <<>>
  ELSE recordIssues(records[idx], idx, 1) \o allIssues(records, idx + 1)

\* validate whose status looks at the warnings first
validateWarningFirst(records) ==
  LET issues == allIssues(records, 1) IN
  [status |-> IF \E i \in DOMAIN issues : issues[i].severity = "warning" THEN "amber"
              ELSE IF Len(issues) > 0 THEN "red"
              ELSE "green",
   issues |-> issues]

validate(records) ==
  LET issues == allIssues(records, 1) IN
  [status |-> IF \E i \in DOMAIN issues : issues[i].severity = "error" THEN "red"
              ELSE IF Len(issues) > 0 THEN "amber"
              ELSE "green",
   issues |-> issues]

-----------------------------------------------------------------------------
(* kpi/engine.ts *)

\* Math.round(n * 100) / 100
round(x) == RatDiv(MathRound(RatMul(x, Num(100))), Num(100))

DefaultLife == 10
DefaultFactor == [n |-> 1, d |-> 4]

\* orZero that counts a null field as 1
orOne(v) == IF v.t = "number" THEN numOf(v) ELSE Num(1)

\* v ?? 0 of a record field
orZero(v) == IF v.t = "number" THEN numOf(v) ELSE Num(0)

\* statusOf with strict comparisons
statusOfStrict(share, materials, production, thresholds) ==
  [UsePhase |->
     IF RatGt(share, thresholds.usePhasePercentRed) THEN "red"
     ELSE IF RatGt(share, RatMul(thresholds.usePhasePercentRed, Rat(7, 10))) THEN "amber"
     ELSE "green",
   Materials |->
     IF RatGt(materials, thresholds.materialsKgRed) THEN "red"
     ELSE IF RatGt(materials, RatMul(thresholds.materialsKgRed, Rat(7, 10))) THEN "amber"
     ELSE "green",
   Production |->
     IF RatLt(production, thresholds.productionKgGreen) THEN "green"
     ELSE IF RatLt(production, RatMul(thresholds.productionKgGreen, Rat(3, 2))) THEN "amber"
     ELSE "red"]

\* const status = { UsePhase: ..., Materials: ..., Production: ... }
statusOf(share, materials, production, thresholds) ==
  [UsePhase |->
     IF RatGe(share, thresholds.usePhasePercentRed) THEN "red"
     ELSE IF RatGe(share, RatMul(thresholds.usePhasePercentRed, Rat(7, 10))) THEN "amber"
     ELSE "green",
   Materials |->
     IF RatGe(materials, thresholds.materialsKgRed) THEN "red"
     ELSE IF RatGe(materials, RatMul(thresholds.materialsKgRed, Rat(7, 10))) THEN "amber"
     ELSE "green",
   Production |->
     IF RatLe(production, thresholds.productionKgGreen) THEN "green"
     ELSE IF RatLe(production, RatMul(thresholds.productionKgGreen, Rat(3, 2))) THEN "amber"
     ELSE "red"]

kpiOf(r, grid, lifetimeYears, thresholds) ==
  LET cat == r["Category"].s
      life == IF cat \in DOMAIN lifetimeYears THEN lifetimeYears[cat] ELSE Num(DefaultLife)
      factor == IF grid.factor.t = "number" THEN numOf(grid.factor) ELSE DefaultFactor
      use == RatDiv(RatMul(RatMul(orZero(r["Use_kWh_per_year"]), factor), life), Num(1000))
      transport == orZero(r["Transport_kgCO2e"])
      materials == orZero(r["Materials_kgCO2e"])
      production == orZero(r["Production_kgCO2e"])
      total == RatAdd(RatAdd(RatAdd(transport, materials), production), use)
      share == IF RatGt(total, Num(0)) THEN RatMul(RatDiv(use, total), Num(100)) ELSE Num(0)
      status == statusOf(share, materials, production, thresholds)
  IN  [Product |-> r["Product"].s,
       Category |-> cat,
       UsePhase_CO2e |-> round(use),
       Total_CO2e |-> round(total),
       UsePhase_Share_Pct |-> round(share),
       stageBreakdown |-> [Transport |-> round(transport), Materials |-> round(materials),
                           Production |-> round(production), Use |-> round(use)],
       status |-> status]

computeKPIs(records, grid, lifetimeYears, thresholds) ==
  [k \in DOMAIN records |-> kpiOf(records[k], grid, lifetimeYears, thresholds)]

-----------------------------------------------------------------------------
(* workers/xlsxWorker.ts: the worker *)

HeaderScanLimit == 20
chunkSize == 1000

keywordHints == <<"transport", "materials", "production", "use", "kwh", "product">>

\* A score is a double: acc starts at 0 and takes acc + hits + len for each
\* cell, so it is reached by adding ones and fifths in some order, and the
\* rounding of each sum depends on that order.  [ones, fifths, ulps] is the
\* double ulps places above the double nearest to ones + fifths/5; plusOne
\* and plusFifth give the ulps of acc + 1 and of acc + 0.2 (IEEE 754, round
\* to nearest even) for every acc a row of up to five cells reaches.
plusOne ==
  <<0, 0, 0>> :> 0 @@ <<0, 1, 0>> :> 0 @@ <<0, 2, 0>> :> 0 @@ <<0, 3, 1>> :> 0 @@
  <<0, 4, 0>> :> 0 @@ <<1, 1, 0>> :> 0 @@ <<1, 2, 0>> :> 0 @@ <<1, 3, -1>> :> -1 @@
  <<1, 4, -1>> :> 0 @@ <<1, 4, 0>> :> 0 @@ <<2, 2, 1>> :> 1 @@ <<2, 3, 0>> :> 0 @@
  <<2, 3, 1>> :> 1 @@ <<2, 4, 0>> :> 0 @@ <<2, 4, 1>> :> 1 @@ <<2, 4, 2>> :> 2 @@
  <<3, 3, 1>> :> 1 @@ <<3, 4, 1>> :> 1 @@ <<3, 4, 2>> :> 1 @@ <<4, 4, 1>> :> 1

plusFifth ==
  <<0, 0, 0>> :> 0 @@ <<0, 1, 0>> :> 0 @@ <<0, 2, 0>> :> 1 @@ <<0, 3, 1>> :> 0 @@
  <<0, 4, 0>> :> 0 @@ <<1, 0, 0>> :> 0 @@ <<1, 1, 0>> :> 0 @@ <<1, 2, 0>> :> -1 @@
  <<1, 3, -1>> :> -1 @@ <<1, 3, 0>> :> 0 @@ <<1, 4, -1>> :> -1 @@ <<1, 4, 0>> :> 0 @@
  <<2, 1, 0>> :> 1 @@ <<2, 2, 0>> :> 0 @@ <<2, 2, 1>> :> 1 @@ <<2, 3, -1>> :> 0 @@
  <<2, 3, 0>> :> 1 @@ <<2, 3, 1>> :> 2 @@ <<2, 4, 0>> :> 0 @@ <<2, 4, 1>> :> 1 @@
  <<2, 4, 2>> :> 2 @@ <<3, 2, 1>> :> 1 @@ <<3, 3, 0>> :> 1 @@ <<3, 3, 1>> :> 2 @@
  <<3, 4, 0>> :> 0 @@ <<3, 4, 1>> :> 0 @@ <<3, 4, 2>> :> 1 @@ <<4, 3, 1>> :> 1 @@
  <<4, 4, 1>> :> 1 @@ <<5, 4, 1>> :> 1

zeroScore == [ones |-> 0, fifths |-> 0, ulps |-> 0]

\* the exact number a score is nearest to
scoreValue(a) == RatAdd(Num(a.ones), Rat(a.fifths, 5))

\* a > b on two scores
scoreGt(a, b) ==
  \/ RatGt(scoreValue(a), scoreValue(b))
  \/ scoreValue(a) = scoreValue(b) /\ a.ulps > b.ulps

\* the reducer on one cell: acc + hits + len with v = String(cell ?? '').toLowerCase()
cellScore(acc, cell) ==
  LET v == toLowerCase(stringChars(Coalesce(cell, StrV(""))))
      hits == \E k \in DOMAIN keywordHints : includes(v, chars[keywordHints[k]])
      withHits == IF hits
                  THEN [ones |-> acc.ones + 1, fifths |-> acc.fifths,
                        ulps |-> plusOne[<<acc.ones, acc.fifths, acc.ulps>>]]
                  ELSE acc
  IN  IF Len(v) > 0
      THEN [ones |-> withHits.ones, fifths |-> withHits.fifths + 1,
            ulps |-> plusFifth[<<withHits.ones, withHits.fifths, withHits.ulps>>]]
      ELSE withHits

RECURSIVE rowScore(_, _)
\* r.reduce(..., 0) over the first k cells of the row
rowScore(r, k) ==
  IF k = 0 THEN zeroScore ELSE cellScore(rowScore(r, k - 1), r[k])

\* the callback of forEach on the row of 0-based index i: bestScore starts
\* at -Infinity, which "first" stands for
scanRow(best, score, i) ==
  IF best.first \/ scoreGt(score, best.bestScore)
  THEN [bestIdx |-> i, bestScore |-> score, first |-> FALSE]
  ELSE best

RECURSIVE scanRows(_, _)
\* bestIdx and bestScore after the first k rows
scanRows(rows, k) ==
  IF k = 0 THEN [bestIdx |-> 0, bestScore |-> zeroScore, first |-> TRUE]
  ELSE scanRow(scanRows(rows, k - 1), rowScore(rows[k], Len(rows[k])), k - 1)

autoDetectHeaderRow(rows) ==
  scanRows(rows, IF Len(rows) < HeaderScanLimit THEN Len(rows) ELSE HeaderScanLimit).bestIdx

\* Object.fromEntries(headers.map((h, idx) => [h, r[idx]])): a later column of
\* the same header wins; a row shorter than the header row reads undefined
rowObject(headers, r) ==
  [h \in {headers[i] : i \in DOMAIN headers} |->
     LET idx == CHOOSE i \in DOMAIN headers :
                  headers[i] = h /\ \A j \in DOMAIN headers : headers[j] = h => j <= i
     IN  IF idx <= Len(r) THEN r[idx] ELSE Undefined]

Min(a, b) == IF a < b THEN a ELSE b

RECURSIVE sheetChunks(_, _, _, _, _, _)
\* the loop for (let i = 0; i < rows.length; i += chunkSize)
sheetChunks(fileName, sheet, headerRowIndex, headers, rows, i) ==
  IF i >= Len(rows) THEN <<>>
  ELSE <<[type |-> "sheet",
          value |-> [fileName |-> fileName, sheet |-> sheet,
                     headerRowIndex |-> headerRowIndex, headers |-> headers,
                     rows |-> [k \in 1..(Min(i + chunkSize, Len(rows)) - i) |->
                                 rowObject(headers, rows[i + k])]]]>>
       \o sheetChunks(fileName, sheet, headerRowIndex, headers, rows, i + chunkSize)

\* sheetMessages with the header row among the data rows
sheetMessagesWithHeaderRow(fileName, sheet, aoa) ==
  LET headerRowIndex == autoDetectHeaderRow(aoa)
      headers == IF headerRowIndex + 1 <= Len(aoa)
                 THEN [i \in DOMAIN aoa[headerRowIndex + 1] |->
                         jsString(Coalesce(aoa[headerRowIndex + 1][i], StrV("")))]
                 ELSE <<>>
      rows == SubSeq(aoa, headerRowIndex + 1, Len(aoa))
  IN  sheetChunks(fileName, sheet, headerRowIndex, headers, rows, 0)

\* the messages of one sheet: its chunks
sheetMessages(fileName, sheet, aoa) ==
  LET headerRowIndex == autoDetectHeaderRow(aoa)
      headers == IF headerRowIndex + 1 <= Len(aoa)
                 THEN [i \in DOMAIN aoa[headerRowIndex + 1] |->
                         jsString(Coalesce(aoa[headerRowIndex + 1][i], StrV("")))]
                 ELSE <<>>
      rows == SubSeq(aoa, headerRowIndex + 2, Len(aoa))
  IN  sheetChunks(fileName, sheet, headerRowIndex, headers, rows, 0)

errorMessage(e) == [type |-> "error", error |-> e]

RECURSIVE sheetLoop(_, _)
\* the loop over wb.SheetNames from sheet k on, then done; a sheet whose
\* conversion throws ends the parse in the catch clause
sheetLoop(file, k) ==
  IF k > Len(file.sheetNames) THEN <<[type |-> "done"]>>
  ELSE LET ws == file.sheets[file.sheetNames[k]] IN
       IF ws.throws THEN <<errorMessage(ws.error)>>
       ELSE sheetMessages(file.name, file.sheetNames[k], ws.aoa) \o sheetLoop(file, k + 1)

\* handleParse whose catch clause does not end the parse: done follows error
handleParseDoneAfterError(file) ==
  IF ~file.decodes THEN <<errorMessage(file.error), [type |-> "done"]>>
  ELSE <<[type |-> "meta", value |-> [name |-> file.name, sheetNames |-> file.sheetNames]]>>
         \o sheetLoop(file, 1)

\* every message handleParse posts, in order; a blob XLSX.read cannot decode
\* throws before the meta message
handleParse(file) ==
  IF ~file.decodes THEN <<errorMessage(file.error)>>
  ELSE <<[type |-> "meta", value |-> [name |-> file.name, sheetNames |-> file.sheetNames]]>>
         \o sheetLoop(file, 1)

\* makeDummy without its last product
makeDummyTwoRows(name) ==
  [name |-> name, sheetNames |-> <<"Data">>,
   rows |-> << [i \in DOMAIN Targets |-> StrV(Targets[i])],
               <<StrV("Cooker A"), StrV("Cooking"), NumV(Num(50)), NumV(Num(180)), NumV(Num(120)),
                 NumV(Num(150)), NumV(Num(200)), NumV(Num(30)), NumV(Num(40)), StrV("A++")>>,
               <<StrV("Fridge B"), StrV("Cooling"), NumV(Num(70)), NumV(Num(220)), NumV(Num(150)),
                 NumV(Num(200)), NumV(Num(150)), NumV(Num(25)), NumV(Num(20)), StrV("A+")>> >>]

makeDummy(name) ==
  [name |-> name, sheetNames |-> <<"Data">>,
   rows |-> << [i \in DOMAIN Targets |-> StrV(Targets[i])],
               <<StrV("Cooker A"), StrV("Cooking"), NumV(Num(50)), NumV(Num(180)), NumV(Num(120)),
                 NumV(Num(150)), NumV(Num(200)), NumV(Num(30)), NumV(Num(40)), StrV("A++")>>,
               <<StrV("Fridge B"), StrV("Cooling"), NumV(Num(70)), NumV(Num(220)), NumV(Num(150)),
                 NumV(Num(200)), NumV(Num(150)), NumV(Num(25)), NumV(Num(20)), StrV("A+")>>,
               <<StrV("Washer C"), StrV("Washing"), NumV(Num(40)), NumV(Num(160)), NumV(Num(100)),
                 NumV(Num(180)), NumV(Num(300)), NumV(Num(35)), NumV(Num(60)), StrV("A")>> >>]

\* every message handleParseDummy posts, in order (nothing in it throws)
handleParseDummy(name) ==
  LET d == makeDummy(name)
      headers == [i \in DOMAIN d.rows[1] |-> d.rows[1][i].s]
  IN  << [type |-> "meta", value |-> [name |-> d.name, sheetNames |-> d.sheetNames]],
         [type |-> "sheet",
          value |-> [sheet |-> "Data", headerRowIndex |-> 0, headers |-> headers,
                     rows |-> [k \in 1..(Len(d.rows) - 1) |-> rowObject(headers, d.rows[k + 1])]]],
         [type |-> "done"] >>

-----------------------------------------------------------------------------
(* state/store.ts: the working state *)

VARIABLES
  state,      \* the store's state object
  heap,       \* the KPI arrays and thresholds objects the state refers to
  storage,    \* sessionStorage's nx_state
  workers,    \* the parses started since the page was loaded, in start order
  event       \* the handler that ran last, and how it ended

vars == <<state, heap, storage, workers, event>>

None == [some |-> FALSE]
Some(v) == [some |-> TRUE, v |-> v]

MaxStep == 4

\* An object of insertion-ordered string keys (mappings, sheets): a sequence
\* of [key, val]; obj[key] = val replaces in place or appends
ObjHas(obj, key) == \E i \in DOMAIN obj : obj[i].key = key
ObjGet(obj, key) == obj[CHOOSE i \in DOMAIN obj : obj[i].key = key].val
ObjSet(obj, key, val) ==
  IF ObjHas(obj, key)
  THEN [i \in DOMAIN obj |-> IF obj[i].key = key THEN [key |-> key, val |-> val] ELSE obj[i]]
  ELSE Append(obj, [key |-> key, val |-> val])
ObjKeys(obj) == [i \in DOMAIN obj |-> obj[i].key]

\* The KPI array and the thresholds object are held by reference: the state
\* and a snapshot name them by address, and heap gives what an address holds.
Addr == {"o1", "o2"}

defaultThresholds ==
  [usePhasePercentRed |-> Num(60), materialsKgRed |-> Num(200), productionKgGreen |-> Num(100)]

init ==
  [stepIndex |-> 0,
   files |-> <<>>,
   detected |-> <<>>,
   mappings |-> <<>>,
   sheets |-> <<>>,
   records |-> <<>>,
   dataQuality |-> None,
   gridFactor |-> [region |-> "EU-27", factor |-> NumV(Rat(1, 4))],
   lifetimeYears |-> ("Cooking" :> Num(12)) @@ ("Cooling" :> Num(10))
                       @@ ("Washing" :> Num(8)) @@ ("Unknown" :> Num(10)),
   thresholds |-> "o1",
   kpis |-> "o1",
   lockedSnapshot |-> None,
   busy |-> FALSE,
   error |-> None]

initHeap ==
  [kpis |-> [a \in Addr |-> <<>>], thresholds |-> [a \in Addr |-> defaultThresholds]]

\* S below is the pair [state, heap]
liveKpis(S) == S.heap.kpis[S.state.kpis]
liveThresholds(S) == S.heap.thresholds[S.state.thresholds]

snapshotRefs(S, field) ==
  IF S.state.lockedSnapshot.some THEN {S.state.lockedSnapshot.v[field]} ELSE {}

\* the address of a new object: one that nothing kept refers to
freshAddr(kept) == CHOOSE a \in Addr : a \notin kept

\* objects nothing refers to any more are dropped
collect(S) ==
  LET usedK == {S.state.kpis} \cup snapshotRefs(S, "kpis")
      usedT == {S.state.thresholds} \cup snapshotRefs(S, "thresholds")
  IN  [S EXCEPT !.heap =
         [kpis |-> [a \in Addr |-> IF a \in usedK THEN S.heap.kpis[a] ELSE <<>>],
          thresholds |-> [a \in Addr |-> IF a \in usedT THEN S.heap.thresholds[a]
                                         ELSE defaultThresholds]]]

\* store.set(patch): state = { ...state, ...patch }
storeSet(S, patch) == [S EXCEPT !.state = patch @@ S.state]

\* structuredClone(state): a deep copy of the state and of every object it
\* reaches. It keeps the values, and two references to one object refer to
\* one object of the copy; the objects copied from are unreferenced from then
\* on. Addresses are names only, so the copy is written at the same addresses.
structuredClone(S) == S

\* store.update(mutator)
update(S, mutator(_)) == mutator(structuredClone(S))

\* nextStep without Math.min(4, ...)
nextStepUncapped(S) ==
  update(S, LAMBDA n : [n EXCEPT !.state.stepIndex = n.state.stepIndex + 1])

nextStep(S) ==
  update(S, LAMBDA n : [n EXCEPT !.state.stepIndex = Min(MaxStep, n.state.stepIndex + 1)])

prevStep(S) ==
  update(S, LAMBDA n : [n EXCEPT !.state.stepIndex =
                          IF n.state.stepIndex - 1 < 0 THEN 0 ELSE n.state.stepIndex - 1])

resetError(S) == storeSet(S, [error |-> None])
setBusy(S, b) == storeSet(S, [busy |-> b])
addFile(S, meta) == update(S, LAMBDA n : [n EXCEPT !.state.files = Append(@, meta)])
addDetected(S, dp) == update(S, LAMBDA n : [n EXCEPT !.state.detected = @ \o dp])
setMapping(S, key, map) ==
  update(S, LAMBDA n : [n EXCEPT !.state.mappings = ObjSet(@, key, map)])
setSheet(S, key, data) ==
  update(S, LAMBDA n : [n EXCEPT !.state.sheets = ObjSet(@, key, data)])
setRecords(S, records) == storeSet(S, [records |-> records])

\* setKPIs that stores nothing
setKPIsNothing(S, kpis) == S

\* store.setKPIs(kpis): the state refers to the array it is given, a new one
setKPIs(S, kpis) ==
  LET a == freshAddr(snapshotRefs(S, "kpis")) IN
  [state |-> [kpis |-> a] @@ S.state, heap |-> [S.heap EXCEPT !.kpis[a] = kpis]]

RECURSIVE sumTotal(_, _)
\* kpis.reduce((a, b) => a + b.Total_CO2e, 0), from entry k on with a so far
sumTotal(kpis, k) ==
  IF k > Len(kpis) THEN Num(0)
  ELSE RatAdd(kpis[k].Total_CO2e, sumTotal(kpis, k + 1))

\* lock that keeps a snapshot there is
lockKeepsPrior(S, at) ==
  IF S.state.lockedSnapshot.some THEN S
  ELSE storeSet(S, [lockedSnapshot |->
                      Some([at |-> at,
                            kpis |-> S.state.kpis,
                            totals |-> [count |-> Len(liveKpis(S)),
                                        totalCO2e |-> sumTotal(liveKpis(S), 1)],
                            thresholds |-> S.state.thresholds])])

\* store.lock() at time at: the snapshot refers to the state's KPI array and
\* thresholds object themselves
lock(S, at) ==
  LET snapshot ==
        [at |-> at,
         kpis |-> S.state.kpis,
         totals |-> [count |-> Len(liveKpis(S)), totalCO2e |-> sumTotal(liveKpis(S), 1)],
         thresholds |-> S.state.thresholds]
  IN  storeSet(S, [lockedSnapshot |-> Some(snapshot)])

setGridFactor(S, gf) == storeSet(S, [gridFactor |-> gf])

\* setThresholds that writes into the object the state refers to
setThresholdsInPlace(S, t) == [S EXCEPT !.heap.thresholds[S.state.thresholds] = t]

\* store.setThresholds(t): the state refers to the object it is given
setThresholds(S, t) ==
  LET a == freshAddr(snapshotRefs(S, "thresholds")) IN
  [state |-> [thresholds |-> a] @@ S.state, heap |-> [S.heap EXCEPT !.thresholds[a] = t]]

setLifetime(S, cat, years) ==
  update(S, LAMBDA n : [n EXCEPT !.state.lifetimeYears = (cat :> years) @@ @])

\* JSON.parse(JSON.stringify(v)) of a number: a number that is not finite is
\* written as null
jsonNumber(v) == IF v.t = "number" /\ v.d = 0 THEN Null ELSE v

\* persist: what JSON.stringify(light) holds, read back
light(S) ==
  [stepIndex |-> S.state.stepIndex,
   gridFactor |-> [region |-> S.state.gridFactor.region,
                   factor |-> jsonNumber(S.state.gridFactor.factor)],
   lifetimeYears |-> S.state.lifetimeYears,
   thresholds |-> liveThresholds(S)]

\* loaded that does not read what was persisted
loadedIgnoresStorage(raw) == [state |-> init, heap |-> initHeap]

\* the state the module starts with: { ...init, ...JSON.parse(persistedRaw) },
\* or init; the thresholds read back are an object of their own
loaded(raw) ==
  IF raw.some
  THEN [state |-> [stepIndex |-> raw.v.stepIndex, gridFactor |-> raw.v.gridFactor,
                   lifetimeYears |-> raw.v.lifetimeYears, thresholds |-> "o1"] @@ init,
        heap |-> [initHeap EXCEPT !.thresholds["o1"] = raw.v.thresholds]]
  ELSE [state |-> init, heap |-> initHeap]

-----------------------------------------------------------------------------
(* The files a user uploads *)

headerRowA ==
  <<StrV("Product"), StrV("Transport kgCO2e"), StrV("Materials kgCO2e"),
    StrV("Production kgCO2e"), StrV("kWh per year")>>

\* a.xlsx: one sheet, the header row first, one value above the validator's
\* limit for a suspicious value
FileA ==
  [name |-> "a.xlsx", decodes |-> TRUE, error |-> "", sheetNames |-> <<"S1">>,
   sheets |-> ("S1" :> [throws |-> FALSE, error |-> "",
                        aoa |-> << headerRowA,
                                   <<StrV("X"), NumV(Num(10)), NumV(Num(20)), NumV(Num(30)), NumV(Num(100))>>,
                                   <<StrV("Y"), NumV(Num(SuspiciouslyLarge + 1)), NumV(Num(20)), NumV(Num(30)),
                                     NumV(Num(100))>> >>])]

\* b.xlsx: a title row above the header row, a row with a missing and a
\* negative value, and a second sheet whose conversion throws
FileB ==
  [name |-> "b.xlsx", decodes |-> TRUE, error |-> "", sheetNames |-> <<"S1", "S2">>,
   sheets |-> ("S1" :> [throws |-> FALSE, error |-> "",
                        aoa |-> << <<StrV("Z")>>,
                                   headerRowA,
                                   <<StrV("Y"), Null, NumV(Num(-5)), NumV(Num(0)), NumV(Num(100))>> >>])
              @@ ("S2" :> [throws |-> TRUE, error |-> "Cannot read sheet", aoa |-> <<>>])]

\* bad.xlsx: a blob XLSX.read cannot decode
FileD ==
  [name |-> "bad.xlsx", decodes |-> FALSE, error |-> "Unsupported file",
   sheetNames |-> <<>>, sheets |-> <<>>]

FileIds == {"A", "B", "D"}
File(id) == CASE id = "A" -> FileA [] id = "B" -> FileB [] id = "D" -> FileD

DummyName == "DummyData.xlsx"

\* what the worker posts for each request
outboxOf == [id \in FileIds |-> handleParse(File(id))]
dummyOutbox == handleParseDummy(DummyName)

Outbox(w) ==
  IF ~w.ran THEN <<>>
  ELSE IF w.kind = "dummy" THEN dummyOutbox
  ELSE outboxOf[w.file]

AllMessages ==
  {dummyOutbox[i] : i \in DOMAIN dummyOutbox}
    \cup UNION {{outboxOf[id][i] : i \in DOMAIN outboxOf[id]} : id \in FileIds}

\* suggestMapping on the header rows the worker posts
suggestionsFor ==
  [h \in {m.value.headers : m \in {x \in AllMessages : x.type = "sheet"}} |-> suggestMapping(h)]

-----------------------------------------------------------------------------
(* ui/steps/Step1Intake.ts: handleProgress *)

RECURSIVE addDetectedRows(_, _, _, _, _)
\* rows.forEach(r => store.addDetected([...])), from row k on
addDetectedRows(S, rows, fileName, sheet, k) ==
  IF k > Len(rows) THEN S
  ELSE LET r == rows[k]
           product == jsString(Coalesce(Coalesce(Get(r, "Product"), Get(r, "product")),
                                        StrV("Unknown")))
       IN  addDetectedRows(
             addDetected(S, <<[product |-> product, category |-> "Unknown",
                               sourceFile |-> fileName, status |-> "Parsed", sheet |-> sheet]>>),
             rows, fileName, sheet, k + 1)

\* ev.value.fileName ?? 'Upload'
fileNameOf(value) == IF "fileName" \in DOMAIN value THEN value.fileName ELSE "Upload"

\* `${fileName}::${ev.value.sheet}`
sheetKey(value) == Str(chars[fileNameOf(value)] \o <<":", ":">> \o chars[value.sheet])

\* combinedRows that keeps the new rows only
combinedRowsReplace(sheets, key, rows) == rows

\* existing ? existing.rows.concat(rows) : rows
combinedRows(sheets, key, rows) ==
  IF ObjHas(sheets, key) THEN ObjGet(sheets, key).rows \o rows ELSE rows

\* store.setMapping(key, map) with the suggestions for the chunk's headers
captureMapping(S, value) ==
  setMapping(S, sheetKey(value),
             [sheetName |-> value.sheet,
              headerRowIndex |-> value.headerRowIndex,
              suggestions |-> suggestionsFor[value.headers]])

\* store.setSheet(key, { headers, rows: combined })
captureRows(S, value) ==
  setSheet(S, sheetKey(value),
           [headers |-> value.headers,
            rows |-> combinedRows(S.state.sheets, sheetKey(value), value.rows)])

\* enableNextStep without the test of the step
enableNextStepAlways(S) == nextStep(S)

\* if (store.get().stepIndex === 0) store.nextStep()
enableNextStep(S) == IF S.state.stepIndex = 0 THEN nextStep(S) ELSE S

handleProgress(S, ev) ==
  IF ev.type = "sheet"
  THEN enableNextStep(
         addDetectedRows(captureRows(captureMapping(S, ev.value), ev.value),
                         ev.value.rows, fileNameOf(ev.value), ev.value.sheet, 1))
  ELSE IF ev.type = "error" THEN storeSet(S, [error |-> Some(ev.error)])
  ELSE S

-----------------------------------------------------------------------------
(* The wizard: one action per event handler *)

MaxParses == 2      \* parses started between two page loads
MaxUpload == 2      \* files chosen in one upload
MaxLocks == 1       \* locks between two page loads

\* the uploads tried: the file that cannot be decoded, alone and before
\* another file, and two files that can be decoded
Uploads ==
  {files \in UNION {[1..k -> FileIds] : k \in 1..MaxUpload} :
     files \in {<<"D">>, <<"D", "A">>, <<"B", "A">>}}

RegionInputs == {"Mexico"}
FactorInputs == {Rat(21, 50)}
EditIdx == {3}
EditValues == {"(none)"}

Here == [state |-> state, heap |-> heap]

\* The end of a handler: the state it leaves; persist has run if it called
\* the store, and what it wrote last stays in sessionStorage
Commit(S, ev, notified) ==
  LET T == collect(S) IN
  /\ state' = T.state
  /\ heap' = T.heap
  /\ storage' = IF notified THEN Some(light(T)) ELSE storage
  /\ event' = ev

\* a click on a disabled button, or a handler that returns at once
Ignored(ev) == Commit(Here, ev, FALSE) /\ UNCHANGED workers

newWorker(kind, file, rest, prev) ==
  [kind |-> kind, file |-> file, ran |-> FALSE, delivered |-> 0, settled |-> FALSE,
   rest |-> rest, prev |-> prev]

\* Step1Intake: fileInput change, up to the first await
FileInputChange(files) ==
  /\ state.stepIndex = 0
  /\ Len(workers) + Len(files) <= MaxParses
  /\ workers' = Append(workers, newWorker("file", files[1], Tail(files), 0))
  /\ Commit(setBusy(Here, TRUE), [op |-> "upload", arg |-> ""], TRUE)

\* Step1Intake: dummyBtn click, up to the await
DummyClick ==
  /\ state.stepIndex = 0
  /\ Len(workers) + 1 <= MaxParses
  /\ workers' = Append(workers, newWorker("dummy", DummyName, <<>>, 0))
  /\ Commit(setBusy(Here, TRUE), [op |-> "dummy", arg |-> ""], TRUE)

\* xlsxWorker: onmessage, which posts every message of the parse
WorkerRun(i) ==
  /\ i \in DOMAIN workers
  /\ ~workers[i].ran
  /\ workers' = [workers EXCEPT ![i].ran = TRUE]
  /\ Commit(Here, [op |-> "run", arg |-> ""], FALSE)

\* settles where an error message does not settle the promise
settlesOnMetaOnly(w, ev) == ~w.settled /\ ev.type = "meta"

\* the promise of parse w is settled by the first meta or error message
settles(w, ev) == ~w.settled /\ ev.type \in {"meta", "error"}

\* catch (e) { store.set({ error: e.message }) } of the handler awaiting w
caught(S, w, ev) ==
  IF settles(w, ev) /\ ev.type = "error" THEN storeSet(S, [error |-> Some(ev.error)]) ELSE S

\* store.setBusy(false) once the last file of the upload is settled
loopEnd(S, w, ev) ==
  IF settles(w, ev) /\ w.rest = <<>> THEN setBusy(S, FALSE) ELSE S

\* parser: worker.onmessage with message ev of parse i, and what the promise
\* it settles lets run: the catch clause, then the next file of the upload
\* or setBusy(false)
onmessage(i, w, ev) ==
  /\ workers' =
       IF settles(w, ev)
       THEN [workers EXCEPT ![i] = [w EXCEPT !.delivered = w.delivered + 1,
                                             !.settled = TRUE, !.rest = <<>>]]
              \o (IF w.rest # <<>>
                  THEN <<newWorker("file", Head(w.rest), Tail(w.rest), i)>>
                  ELSE <<>>)
       ELSE [workers EXCEPT ![i].delivered = w.delivered + 1]
  /\ Commit(loopEnd(caught(handleProgress(Here, ev), w, ev), w, ev),
            [op |-> "deliver", arg |-> ev.type],
            ev.type \in {"sheet", "error"} \/ (settles(w, ev) /\ w.rest = <<>>))

Deliver(i) ==
  /\ i \in DOMAIN workers
  /\ workers[i].delivered < Len(Outbox(workers[i]))
  /\ onmessage(i, workers[i], Outbox(workers[i])[workers[i].delivered + 1])

regionFactor ==
  ("EU-27" :> Rat(1, 4)) @@ ("Mexico" :> Rat(21, 50)) @@ ("USA" :> Rat(2, 5))
    @@ ("Renewables" :> Rat(1, 10))

\* Number(factor.value) where factor.value is String(s.gridFactor.factor)
shownFactor == IF state.gridFactor.factor.t = "number" THEN state.gridFactor.factor ELSE NumV(NaN)

\* Step1Intake: region change
RegionChange(reg) ==
  /\ state.stepIndex = 0
  /\ reg # state.gridFactor.region
  /\ LET f == IF reg = "Custom" THEN shownFactor
              ELSE IF reg \in DOMAIN regionFactor THEN NumV(regionFactor[reg])
              ELSE NumV(Rat(1, 4))
     IN  Commit(setGridFactor(Here, [region |-> reg, factor |-> f]),
                [op |-> "region", arg |-> ""], TRUE)
  /\ UNCHANGED workers

\* Step1Intake: factor input
FactorInput(f) ==
  /\ state.stepIndex = 0
  /\ NumV(f) # state.gridFactor.factor
  /\ Commit(setGridFactor(Here, [region |-> state.gridFactor.region, factor |-> NumV(f)]),
            [op |-> "factor", arg |-> ""], TRUE)
  /\ UNCHANGED workers

\* Step2Validation: select change
SelectChange(key, idx, value) ==
  /\ state.stepIndex = 1
  /\ ObjHas(state.mappings, key)
  /\ LET m == ObjGet(state.mappings, key)
         headers == IF ObjHas(state.sheets, key) THEN ObjGet(state.sheets, key).headers ELSE <<>>
         current == IF m.suggestions[idx].fromHeader.some THEN m.suggestions[idx].fromHeader.h
                    ELSE "(none)"
     IN  /\ value = "(none)" \/ \E j \in DOMAIN headers : headers[j] = value
         /\ value # current
         /\ LET suggestions ==
                  [m.suggestions EXCEPT ![idx].fromHeader =
                     IF value = "(none)" THEN NoHeader ELSE Header(value)]
            IN  Commit(setMapping(Here, key, [m EXCEPT !.suggestions = suggestions]),
                       [op |-> "select", arg |-> ""], TRUE)
  /\ UNCHANGED workers

RECURSIVE rowsOfFirst(_, _)
rowsOfFirst(sheets, k) ==
  IF k = 0 THEN <<>> ELSE rowsOfFirst(sheets, k - 1) \o sheets[k].val.rows

\* bufferRows over every sheet: the rows of all buffers
bufferRowsOfAllSheets(S) == rowsOfFirst(S.state.sheets, Len(S.state.sheets))

\* the rows of the sheet of the first mapping: sheet?.rows ?? []
bufferRows(S) ==
  IF ObjHas(S.state.sheets, ObjKeys(S.state.mappings)[1])
  THEN ObjGet(S.state.sheets, ObjKeys(S.state.mappings)[1]).rows
  ELSE <<>>

\* store.set({ records, dataQuality: dq }) with dq = validate(records)
setValidated(S, records) ==
  storeSet(S, [records |-> records, dataQuality |-> Some(validate(records))])

\* proceedUnlessRed without the test of the status
proceedAlways(S) == nextStep(S)

\* if (dq.status !== 'red') store.nextStep()
proceedUnlessRed(S) == IF S.state.dataQuality.v.status # "red" THEN nextStep(S) ELSE S

\* Step2Validation: mapBtn click
MapBtnClick ==
  /\ state.stepIndex = 1
  /\ UNCHANGED workers
  /\ IF state.mappings = <<>> THEN Ignored([op |-> "apply", arg |-> "disabled"])
     ELSE Commit(proceedUnlessRed(
                   setValidated(Here,
                     applyMapping(bufferRows(Here), state.mappings[1].val).records)),
                 [op |-> "apply", arg |-> "done"], TRUE)

\* Step3KPI: computeBtn click
ComputeClick ==
  /\ state.stepIndex = 2
  /\ UNCHANGED workers
  /\ IF Len(state.records) = 0 THEN Ignored([op |-> "compute", arg |-> "disabled"])
     ELSE LET kpis == computeKPIs(state.records, state.gridFactor, state.lifetimeYears,
                                  liveThresholds(Here))
          IN  Commit(nextStep(setKPIs(Here, kpis)), [op |-> "compute", arg |-> "done"], TRUE)

lockTime == IF state.lockedSnapshot.some THEN state.lockedSnapshot.v.at + 1 ELSE 1

\* Step4Lock: lockBtn click
LockClick ==
  /\ state.stepIndex = 3
  /\ UNCHANGED workers
  /\ IF Len(liveKpis(Here)) = 0 THEN Ignored([op |-> "lock", arg |-> "disabled"])
     ELSE /\ lockTime <= MaxLocks
          /\ Commit(nextStep(lock(Here, lockTime)), [op |-> "lock", arg |-> "done"], TRUE)

\* canGo that enables every nav button
canGoAlways(S, idx) == TRUE

\* Wizard.sync: const canGo = idx <= s.stepIndex
canGo(S, idx) == idx <= S.state.stepIndex

\* Wizard: click on the nav button of step idx
NavClick(idx) ==
  /\ UNCHANGED workers
  /\ IF canGo(Here, idx)
     THEN Commit(storeSet(Here, [stepIndex |-> idx]), [op |-> "nav", arg |-> "done"], TRUE)
     ELSE Ignored([op |-> "nav", arg |-> "disabled"])

\* Step5Export: const disabled = !snap, for the CSV and JSON buttons
downloadEnabled(S) == S.state.lockedSnapshot.some

\* the page is loaded again in the same session
Reload ==
  /\ workers' = <<>>
  /\ state' = loaded(storage).state
  /\ heap' = loaded(storage).heap
  /\ storage' = storage
  /\ event' = [op |-> "reload", arg |-> ""]

Init ==
  /\ state = init
  /\ heap = initHeap
  /\ storage = None
  /\ workers = <<>>
  /\ event = [op |-> "load", arg |-> ""]

Next ==
  \/ \E files \in Uploads : FileInputChange(files)
  \/ DummyClick
  \/ \E i \in 1..MaxParses : WorkerRun(i)
  \/ \E i \in 1..MaxParses : Deliver(i)
  \/ \E reg \in RegionInputs : RegionChange(reg)
  \/ \E f \in FactorInputs : FactorInput(f)
  \/ \E key \in {ObjKeys(state.mappings)[k] : k \in DOMAIN state.mappings},
        idx \in EditIdx, value \in EditValues : SelectChange(key, idx, value)
  \/ MapBtnClick
  \/ ComputeClick
  \/ LockClick
  \/ \E idx \in 0..MaxStep : NavClick(idx)
  \/ Reload

Spec == Init /\ [][Next]_vars

-----------------------------------------------------------------------------
(* The store alone, called by any client *)

sampleSheet == dummyOutbox[2].value

sampleRecords ==
  applyMapping(SubSeq(sampleSheet.rows, 1, 2),
               [sheetName |-> sampleSheet.sheet, headerRowIndex |-> sampleSheet.headerRowIndex,
                suggestions |-> suggestionsFor[sampleSheet.headers]]).records

sampleKpis ==
  computeKPIs(sampleRecords, init.gridFactor, init.lifetimeYears, defaultThresholds)

\* a patch that sets every field the store does not persist and has no
\* method of its own for
Patches ==
  {[files |-> <<[name |-> DummyName, sheetNames |-> <<"Data">>, source |-> "Dummy"]>>,
    detected |-> <<[product |-> "Cooker A", category |-> "Unknown", sourceFile |-> "Upload",
                    status |-> "Parsed", sheet |-> "Data"]>>,
    mappings |-> <<[key |-> "Upload::Data",
                    val |-> [sheetName |-> "Data", headerRowIndex |-> 0,
                             suggestions |-> suggestionsFor[sampleSheet.headers]]]>>,
    sheets |-> <<[key |-> "Upload::Data",
                  val |-> [headers |-> sampleSheet.headers, rows |-> sampleSheet.rows]]>>,
    records |-> sampleRecords,
    dataQuality |-> Some(validate(sampleRecords)),
    busy |-> TRUE,
    error |-> Some("Cannot read sheet")]}

KpiInputs == {sampleKpis}
GridInputs == {[region |-> "Mexico", factor |-> NumV(Rat(21, 50))]}
ThresholdInputs ==
  {[usePhasePercentRed |-> Num(50), materialsKgRed |-> Num(150), productionKgGreen |-> Num(80)]}
LifetimeInputs == {[cat |-> "Cooking", years |-> Num(15)]}

\* mutators a client hands to store.update, which change an object of the
\* state in place
zeroFirstTotal(S) ==
  IF Len(liveKpis(S)) = 0 THEN S
  ELSE [S EXCEPT !.heap.kpis[S.state.kpis][1].Total_CO2e = Num(0)]

zeroMaterialsKgRed(S) ==
  [S EXCEPT !.heap.thresholds[S.state.thresholds].materialsKgRed = Num(0)]

Called(S, ev) == Commit(S, ev, TRUE) /\ UNCHANGED workers

CallSet(patch) == Called(storeSet(Here, patch), [op |-> "set", arg |-> ""])

CallNextStep == Called(nextStep(Here), [op |-> "step", arg |-> ""])

CallPrevStep == Called(prevStep(Here), [op |-> "step", arg |-> ""])

CallSetKPIs(kpis) == Called(setKPIs(Here, kpis), [op |-> "set", arg |-> ""])

MaxStoreLocks == 2  \* calls of store.lock between two page loads

CallLock ==
  /\ lockTime <= MaxStoreLocks
  /\ Called(lock(Here, lockTime), [op |-> "lock", arg |-> "done"])

CallSetGridFactor(gf) == Called(setGridFactor(Here, gf), [op |-> "set", arg |-> ""])

CallSetThresholds(t) == Called(setThresholds(Here, t), [op |-> "set", arg |-> ""])

CallSetLifetime(l) == Called(setLifetime(Here, l.cat, l.years), [op |-> "set", arg |-> ""])

CallUpdateKpi == Called(update(Here, zeroFirstTotal), [op |-> "update", arg |-> ""])

CallUpdateThresholds == Called(update(Here, zeroMaterialsKgRed), [op |-> "update", arg |-> ""])

\* Wizard: store.set({ stepIndex: idx })
CallNavigate(idx) == Called(storeSet(Here, [stepIndex |-> idx]), [op |-> "step", arg |-> ""])

StoreNext ==
  \/ \E patch \in Patches : CallSet(patch)
  \/ CallNextStep
  \/ CallPrevStep
  \/ \E idx \in 0..MaxStep : CallNavigate(idx)
  \/ \E kpis \in KpiInputs : CallSetKPIs(kpis)
  \/ CallLock
  \/ \E gf \in GridInputs : CallSetGridFactor(gf)
  \/ \E t \in ThresholdInputs : CallSetThresholds(t)
  \/ \E l \in LifetimeInputs : CallSetLifetime(l)
  \/ CallUpdateKpi
  \/ CallUpdateThresholds
  \/ Reload

StoreSpec == Init /\ [][StoreNext]_vars

-----------------------------------------------------------------------------
(* The store's methods, each called on its own by any client *)

MaxDetected == 1    \* detected products between two page loads

samplePatch == CHOOSE patch \in Patches : TRUE

CallSetRecords(records) == Called(setRecords(Here, records), [op |-> "set", arg |-> ""])

CallSetMapping(m) == Called(setMapping(Here, m.key, m.val), [op |-> "set", arg |-> ""])

CallSetSheet(sh) == Called(setSheet(Here, sh.key, sh.val), [op |-> "set", arg |-> ""])

CallAddDetected(dp) ==
  /\ Len(state.detected) + Len(dp) <= MaxDetected
  /\ Called(addDetected(Here, dp), [op |-> "set", arg |-> ""])

MethodsNext ==
  \/ \E kpis \in KpiInputs : CallSetKPIs(kpis)
  \/ CallLock
  \/ \E t \in ThresholdInputs : CallSetThresholds(t)
  \/ \E gf \in GridInputs : CallSetGridFactor(gf)
  \/ \E l \in LifetimeInputs : CallSetLifetime(l)
  \/ \E records \in {samplePatch.records} : CallSetRecords(records)
  \/ \E m \in {samplePatch.mappings[1]} : CallSetMapping(m)
  \/ \E sh \in {samplePatch.sheets[1]} : CallSetSheet(sh)
  \/ \E dp \in {samplePatch.detected} : CallAddDetected(dp)
  \/ \E idx \in 0..MaxStep : CallNavigate(idx)
  \/ CallNextStep
  \/ CallPrevStep

MethodsSpec == Init /\ [][MethodsNext]_vars

-----------------------------------------------------------------------------
(* The pure functions, called on their own by any client *)

MaxHeaders == 2     \* headers in a header list

\* headers: exact names, a second exact name of one field, synonyms inside a
\* longer header, headers of no field, a header of two fields, the empty header
HeaderInputs ==
  {"Product", "SKU", "Transport kgCO2e", "kWh per year", "Shipping CO2 (kg)", "Model Type",
   "Notes", ""}

HeaderLists == UNION {[1..k -> HeaderInputs] : k \in 0..MaxHeaders}

\* the call returns: event keeps the function, its arguments and its result
Returned(op, arg, out) ==
  /\ event' = [op |-> op, arg |-> arg, out |-> out]
  /\ UNCHANGED <<state, heap, storage, workers>>

CallSuggestMapping(headers) ==
  Returned("suggestMapping", headers, suggestMapping(headers))

\* the headers of the mapping test, the ten field names, one header, none
testHeaders ==
  <<"Product", "Category", "Transport kgCO2e", "Materials kgCO2e", "Production kgCO2e",
    "kWh per year">>

MappingInputs ==
  {[sheetName |-> "S", headerRowIndex |-> 0, suggestions |-> suggestMapping(h)] :
     h \in {testHeaders, Targets, <<"Product">>, <<>>}}

\* cells: digit text with and without a comma, text without a digit, the
\* empty text, null, an absent cell, a number, a decimal, a negative, a sign
CellInputs ==
  {StrV("1,200"), StrV("50"), StrV("100"), StrV("abc"), StrV("n/a"), StrV(""), Null,
   Undefined, NumV(Num(5)), StrV("1.5"), StrV("-3"), StrV("-")}

\* the row of the mapping test with two of its cells replaced
testRow(transport, materials) ==
  ("Product" :> StrV("A")) @@ ("Category" :> StrV("Cooking"))
    @@ ("Transport kgCO2e" :> transport) @@ ("Materials kgCO2e" :> materials)
    @@ ("Production kgCO2e" :> NumV(Num(5))) @@ ("kWh per year" :> StrV("100"))

\* a row of a product cell and a label cell, either of them absent
labelRow(product, label) ==
  [h \in (IF product = Undefined THEN {} ELSE {"Product"})
          \cup (IF label = Undefined THEN {} ELSE {"EU_Label"}) |->
     IF h = "Product" THEN product ELSE label]

LabelRows ==
  {labelRow(product, label) : product \in {Undefined, Null, StrV(""), StrV("A")},
                              label \in {Undefined, Null, StrV(""), StrV("A+")}}

RowInputs ==
  {<<>>} \cup {<<testRow(c1, c2)>> : c1, c2 \in CellInputs} \cup {<<r>> : r \in LabelRows}

CallApplyMapping(rows, mapping) ==
  Returned("applyMapping", [rows |-> rows, mapping |-> mapping], applyMapping(rows, mapping))

\* values of a required numeric field: null, NaN, a negative, zero, the
\* limit for a large value, the next value and a larger one
ValueInputs ==
  {Null, NumV(NaN), NumV(Num(-5)), NumV(Num(0)), NumV(Num(SuspiciouslyLarge)),
   NumV(Num(SuspiciouslyLarge + 1)), NumV(Num(10 * SuspiciouslyLarge))}

mappedRecord(product, category, transport, materials, production, use) ==
  ("Product" :> StrV(product)) @@ ("Category" :> StrV(category))
    @@ ("Transport_kgCO2e" :> transport) @@ ("Materials_kgCO2e" :> materials)
    @@ ("Production_kgCO2e" :> production) @@ ("Use_kWh_per_year" :> use)
    @@ ("Water_L" :> Null) @@ ("Recycling_Quota_%" :> Null) @@ ("Local_Quota_%" :> Null)
    @@ ("EU_Label" :> Null)

ValidateRecords ==
  {mappedRecord("X", "Cooking", t, m, p, u) :
     t \in ValueInputs, m \in {NumV(Num(-5)), NumV(Num(20))},
     p \in {NumV(Num(0)), NumV(NaN)}, u \in ValueInputs}

\* a second record: without an issue, with a warning
SecondRecords ==
  {mappedRecord("Y", "Cooling", NumV(Num(1)), NumV(Num(2)), NumV(Num(3)), u) :
     u \in {NumV(Num(4)), NumV(Num(SuspiciouslyLarge + 1))}}

ValidateInputs ==
  {<<>>} \cup {<<r>> : r \in ValidateRecords}
    \cup {<<r, s>> : r \in ValidateRecords, s \in SecondRecords}

CallValidate(records) == Returned("validate", records, validate(records))

\* records around the limits of the use-phase share (60 and 42 per cent of
\* the total at factor 0.25 and 10 years), with the record of the KPI test
ShareRecords ==
  {mappedRecord("X", c, t, NumV(Num(20)), p, u) :
     c \in {"Cooking", "Unknown"}, t \in {Null, NumV(Num(10))},
     p \in {NumV(Num(10)), NumV(Num(28)), NumV(Num(30))},
     u \in {Null, NumV(Num(100)), NumV(Num(150)), NumV(Num(16800)), NumV(Num(24000))}}

\* records around the limits of materials (140, 200) and production (100, 150)
StageRecords ==
  {mappedRecord("X", "Cooking", NumV(Num(10)), m, p, NumV(Num(100))) :
     m \in {Null, NumV(Num(139)), NumV(Num(140)), NumV(Num(200))},
     p \in {Null, NumV(Num(100)), NumV(Num(101)), NumV(Num(150)), NumV(Num(151))}}

emptyRecord == mappedRecord("X", "Cooking", Null, Null, Null, Null)

\* records with a stage value on and off a half of the second decimal, of
\* either sign: 0.125, -0.125, -0.126, -0.124
HalfRecords ==
  {mappedRecord("X", "Cooking", NumV(t), NumV(Num(20)), NumV(Num(10)), Null) :
     t \in {Rat(1, 8), Rat(-1, 8), Rat(-63, 500), Rat(-31, 250)}}

KpiRecordLists ==
  {<<>>, <<emptyRecord>>} \cup {<<r>> : r \in ShareRecords \cup StageRecords \cup HalfRecords}
    \cup {<<r, emptyRecord>> : r \in StageRecords}

KpiGrids == {[region |-> "EU-27", factor |-> NumV(Rat(1, 4))],
             [region |-> "Mexico", factor |-> NumV(Rat(21, 50))]}

KpiLifetimes == {"Cooking" :> Num(10), "Cooking" :> Num(15), "Washing" :> Num(12)}

CallComputeKPIs(records, grid, lifetimeYears, thresholds) ==
  Returned("computeKPIs",
           [records |-> records, grid |-> grid, lifetimeYears |-> lifetimeYears,
            thresholds |-> thresholds],
           computeKPIs(records, grid, lifetimeYears, thresholds))

MaxRows == 3        \* rows in an enumerated row list

\* rows for the header detection: the two rows of the detector test, two
\* rows of the same cells in another order, a row of empty cells, a row of
\* one number, a row without cells
DetectRows ==
  {<<StrV("x"), StrV("y")>>,
   <<StrV("Product"), StrV("Transport_kgCO2e"), StrV("Use_kWh_per_year")>>,
   <<StrV("x"), StrV("Product"), StrV("Product")>>,
   <<StrV("Product"), StrV("Product"), StrV("x")>>,
   <<Null, StrV("")>>,
   <<NumV(Num(50))>>,
   <<>>}

\* n rows that are not a header row, then the row of the detector test
belowTitles(n) ==
  [k \in 1..(n + 1) |->
     IF k <= n THEN <<StrV("x"), StrV("y")>>
     ELSE <<StrV("Product"), StrV("Transport_kgCO2e"), StrV("Use_kWh_per_year")>>]

\* the row lists: every list of up to MaxRows rows, and the header row
\* at index 19, 20 and 21
DetectInputs ==
  UNION {[1..k -> DetectRows] : k \in 0..MaxRows}
    \cup {belowTitles(n) : n \in (HeaderScanLimit - 1)..(HeaderScanLimit + 1)}

CallAutoDetectHeaderRow(rows) ==
  Returned("autoDetectHeaderRow", rows, autoDetectHeaderRow(rows))

\* a sheet of n data rows below a header row, each row holding its number
numberedSheet(n) ==
  [k \in 1..(n + 1) |-> IF k = 1 THEN <<StrV("Product")>> ELSE <<NumV(Num(k - 1))>>]

\* sheets: without a row, of a header row alone, of one data row, of one
\* full chunk, of one row more, of two chunks and a row, and with a title
\* row above the header row
SheetInputs ==
  {<<>>, numberedSheet(0), numberedSheet(1), numberedSheet(chunkSize),
   numberedSheet(chunkSize + 1), numberedSheet(2 * chunkSize + 1),
   <<<<StrV("x")>>>> \o numberedSheet(2)}

workbook(sheetNames, aoas) ==
  [name |-> "w.xlsx", decodes |-> TRUE, error |-> "", sheetNames |-> sheetNames,
   sheets |-> [s \in {sheetNames[i] : i \in DOMAIN sheetNames} |->
                 [throws |-> FALSE, error |-> "",
                  aoa |-> aoas[CHOOSE i \in DOMAIN sheetNames : sheetNames[i] = s]]]]

\* workbooks of one and of two sheets, with the uploaded files
WorkbookInputs ==
  {workbook(<<"S1">>, <<a>>) : a \in SheetInputs}
    \cup {workbook(<<"S2", "S1">>, <<a, b>>) : a, b \in SheetInputs}
    \cup {FileA, FileB, FileD}

CallHandleParse(file) == Returned("handleParse", file, handleParse(file))

\* no call has returned yet
notCalled == event.op = "load"

\* one call in each behaviour, as in each test: the functions keep nothing
\* between calls, so a second call adds no state to look at
SuggestMappingTest == notCalled /\ \E headers \in HeaderLists : CallSuggestMapping(headers)

ApplyMappingTest ==
  notCalled /\ \E rows \in RowInputs, mapping \in MappingInputs : CallApplyMapping(rows, mapping)

ValidateTest == notCalled /\ \E records \in ValidateInputs : CallValidate(records)

ComputeKPIsTest ==
  /\ notCalled
  /\ \E records \in KpiRecordLists, grid \in KpiGrids, lifetimeYears \in KpiLifetimes :
       CallComputeKPIs(records, grid, lifetimeYears, defaultThresholds)

AutoDetectHeaderRowTest ==
  notCalled /\ \E rows \in DetectInputs : CallAutoDetectHeaderRow(rows)

HandleParseTest == notCalled /\ \E file \in WorkbookInputs : CallHandleParse(file)

FunctionsNext ==
  \/ SuggestMappingTest
  \/ ApplyMappingTest
  \/ ValidateTest
  \/ ComputeKPIsTest
  \/ AutoDetectHeaderRowTest
  \/ HandleParseTest

FunctionsSpec == Init /\ [][FunctionsNext]_vars

-----------------------------------------------------------------------------
(* Properties *)

isTerminal(m) == m.type \in {"done", "error"}

decodeFails(w) == w.kind = "file" /\ ~File(w.file).decodes

\* the shape common to every parse: at least one message, the last one done
\* or error, none before it done or error, and between the first and the
\* last only sheet chunks
endsOnce(out) ==
  /\ Len(out) >= 1
  /\ isTerminal(out[Len(out)])
  /\ \A k \in 1..(Len(out) - 1) : ~isTerminal(out[k])
  /\ \A k \in 2..(Len(out) - 1) : out[k].type = "sheet"

(* C1, as the claim states it: for every parse request the worker posts
   exactly one meta message first, then zero or more sheet chunks, then
   exactly one terminal message, done or error, and nothing after it; on
   the success path and on every failure path. *)
C1_MetaFirstOnEveryPath ==
  \A i \in DOMAIN workers :
    workers[i].ran =>
      /\ endsOnce(Outbox(workers[i]))
      /\ Len(Outbox(workers[i])) >= 2
      /\ Outbox(workers[i])[1].type = "meta"

(* C1, amended: for every parse request the worker posts zero or more sheet
   chunks and then exactly one terminal message, done or error, and nothing
   after it; exactly one meta message comes first, except when the blob
   cannot be decoded, where the error message is the only message. *)
C1_MetaFirstUnlessUndecodable ==
  \A i \in DOMAIN workers :
    workers[i].ran =>
      /\ endsOnce(Outbox(workers[i]))
      /\ IF decodeFails(workers[i])
         THEN Outbox(workers[i]) = <<errorMessage(File(workers[i].file).error)>>
         ELSE Len(Outbox(workers[i])) >= 2 /\ Outbox(workers[i])[1].type = "meta"

\* a parse of a blob that cannot be decoded has run and its only message has
\* been handled
C1_Witness ==
  \E i \in DOMAIN workers :
    workers[i].ran /\ decodeFails(workers[i]) /\ workers[i].delivered = 1

(* C2: when several files are uploaded in one action, the parse of file k+1
   is not started before the parse of file k has delivered its terminal
   message: whenever the parse of a later file of an upload exists, every
   message of the file before it has been handled. *)
C2_FilesStrictlySequential ==
  \A j \in DOMAIN workers :
    workers[j].prev # 0 =>
      /\ workers[workers[j].prev].ran
      /\ workers[workers[j].prev].delivered = Len(Outbox(workers[workers[j].prev]))

\* what mapBtn would store in the current state
appliedRecords == applyMapping(bufferRows(Here), state.mappings[1].val).records

(* C3: the step index changes from 1 to 2 only as part of an apply-mapping
   action whose validation result is green or amber; an apply-mapping
   action whose validation result is red stores the records and the
   data-quality summary and leaves the step index unchanged. *)
C3_ApplyGate ==
  [][/\ (state.stepIndex = 1 /\ state'.stepIndex = 2) =>
          /\ event' = [op |-> "apply", arg |-> "done"]
          /\ state'.dataQuality.some
          /\ state'.dataQuality.v.status \in {"green", "amber"}
     /\ (event' = [op |-> "apply", arg |-> "done"] /\ state.stepIndex = 1) =>
          /\ state'.records = appliedRecords
          /\ state'.dataQuality = Some(validate(appliedRecords))
          /\ validate(appliedRecords).status = "red" => state'.stepIndex = 1
    ]_vars

\* an apply-mapping action with a red result has just run
C3_Witness ==
  /\ event = [op |-> "apply", arg |-> "done"]
  /\ state.stepIndex = 1
  /\ Len(state.records) > 0
  /\ state.dataQuality.some
  /\ state.dataQuality.v.status = "red"

(* C4: the step index changes from 2 to 3 only as part of a compute action
   that has stored the KPI list computed from the current records, and from
   3 to 4 only as part of a lock action that has stored a locked snapshot;
   no other operation performs either transition. *)
C4_ComputeAndLockGates ==
  [][/\ (state.stepIndex = 2 /\ state'.stepIndex = 3) =>
          /\ event' = [op |-> "compute", arg |-> "done"]
          /\ state'.records = state.records
          /\ heap'.kpis[state'.kpis] =
               computeKPIs(state.records, state.gridFactor, state.lifetimeYears,
                           liveThresholds(Here))
     /\ (state.stepIndex = 3 /\ state'.stepIndex = 4) =>
          /\ event' = [op |-> "lock", arg |-> "done"]
          /\ state'.lockedSnapshot.some
          /\ heap'.kpis[state'.lockedSnapshot.v.kpis] = liveKpis(Here)
    ]_vars

\* compute and then lock have run, and the wizard is at the last step
C4_Witness ==
  /\ event = [op |-> "lock", arg |-> "done"]
  /\ state.stepIndex = 4
  /\ state.lockedSnapshot.some
  /\ state.lockedSnapshot.v.totals.count > 0

(* C5: an attempt to move the step index forward beyond the step reached, or
   past a gate that is not satisfied (a click on the nav button of a later
   step, on Apply without a mapping, on Compute without records, on Lock
   without KPIs) is ignored: the step index and every other field of the
   working state, the error slot included, are unchanged. *)
C5_IgnoredAttemptChangesNothing ==
  [][(\/ \E idx \in 0..MaxStep : idx > state.stepIndex /\ NavClick(idx)
      \/ state.mappings = <<>> /\ MapBtnClick
      \/ Len(state.records) = 0 /\ ComputeClick
      \/ Len(liveKpis(Here)) = 0 /\ LockClick)
     => UNCHANGED <<state, heap, storage, workers>>
    ]_vars

\* a click on the nav button of a later step has just been ignored, with an
\* error in the error slot
C5_Witness ==
  /\ event = [op |-> "nav", arg |-> "disabled"]
  /\ state.error.some

\* Steps the state shows to have been reached since the page was loaded:
\* the current one; 1 once a chunk is buffered; 2 once a result that is not
\* red is stored; 3 once KPIs are stored; 4 once a snapshot is stored. The
\* frontier is at least the highest of them.
reachedSteps ==
  {state.stepIndex}
    \cup (IF state.sheets # <<>> THEN {1} ELSE {})
    \cup (IF state.dataQuality.some /\ state.dataQuality.v.status # "red" THEN {2} ELSE {})
    \cup (IF Len(liveKpis(Here)) > 0 THEN {3} ELSE {})
    \cup (IF state.lockedSnapshot.some THEN {4} ELSE {})

reached == CHOOSE m \in reachedSteps : \A n \in reachedSteps : n <= m

(* C6: in every reachable state, navigation to any step index that has
   already been reached in the session (any index not beyond the frontier)
   sets the step index to the chosen index, also after the user has
   navigated backward. *)
C6_ReachedStepsNavigable ==
  [][\A idx \in 0..MaxStep : (idx <= reached /\ NavClick(idx)) => state'.stepIndex = idx]_vars

(* C7: after a lock, mutating the live KPI list (replacing it, or changing
   an entry of it in place) or the live thresholds leaves the KPI values and
   the thresholds of the snapshot unchanged: as long as the same snapshot is
   stored, what it holds does not change. *)
C7_SnapshotIsValueCopy ==
  [][(/\ state.lockedSnapshot.some
      /\ state'.lockedSnapshot.some
      /\ state'.lockedSnapshot.v.at = state.lockedSnapshot.v.at)
     => /\ heap'.kpis[state'.lockedSnapshot.v.kpis] = heap.kpis[state.lockedSnapshot.v.kpis]
        /\ heap'.thresholds[state'.lockedSnapshot.v.thresholds]
             = heap.thresholds[state.lockedSnapshot.v.thresholds]
    ]_vars

NotPersisted ==
  {"sheets", "mappings", "detected", "records", "dataQuality", "lockedSnapshot", "busy", "error"}

(* C8: after any sequence of store mutations followed by a reload, stepIndex,
   gridFactor, lifetimeYears and thresholds equal their values just before
   the reload, while sheets, mappings, detected products, records, data
   quality, kpis, lockedSnapshot, busy and error are back at their initial
   values; the persisted record has exactly these four fields. *)
C8_ReloadRoundTrip ==
  [][/\ event'.op = "reload" =>
          /\ state'.stepIndex = state.stepIndex
          /\ state'.gridFactor = state.gridFactor
          /\ state'.lifetimeYears = state.lifetimeYears
          /\ heap'.thresholds[state'.thresholds] = liveThresholds(Here)
          /\ \A f \in NotPersisted : state'[f] = init[f]
          /\ heap'.kpis[state'.kpis] = <<>>
     /\ storage'.some =>
          DOMAIN storage'.v = {"stepIndex", "gridFactor", "lifetimeYears", "thresholds"}
    ]_vars

\* a reload has just run with none of the four persisted fields at its
\* initial value
C8_Witness ==
  /\ event.op = "reload"
  /\ state.stepIndex > 0
  /\ state.gridFactor # init.gridFactor
  /\ state.lifetimeYears # init.lifetimeYears
  /\ liveThresholds(Here) # defaultThresholds

(* C9: a sheet chunk captured while the step index is 0 makes it 1 as part
   of handling the chunk; a chunk captured while the step index is 1 or
   higher leaves it unchanged. *)
C9_ChunkAdvancesFromIntakeOnly ==
  [][event' = [op |-> "deliver", arg |-> "sheet"] =>
       state'.stepIndex = IF state.stepIndex = 0 THEN 1 ELSE state.stepIndex]_vars

\* a chunk has just been captured at a step after Completeness
C9_Witness ==
  /\ event = [op |-> "deliver", arg |-> "sheet"]
  /\ state.stepIndex >= 2

rowsAt(sheets, key) == IF ObjHas(sheets, key) THEN ObjGet(sheets, key).rows ELSE <<>>

isPrefix(a, b) == Len(a) <= Len(b) /\ SubSeq(b, 1, Len(a)) = a

\* the step handles the next message of parse i, a sheet chunk
capturesChunk(i) ==
  /\ i \in DOMAIN workers'
  /\ workers'[i].delivered = workers[i].delivered + 1
  /\ Outbox(workers[i])[workers[i].delivered + 1].type = "sheet"

(* C10: the buffer of a key file::sheet is append-only: after each chunk its
   rows are the rows buffered before followed by the rows of the chunk, the
   buffers of the other keys are unchanged, and no step other than a reload
   removes, reorders or overwrites rows already buffered. *)
C10_BufferAppendOnly ==
  [][/\ event'.op # "reload" =>
          \A k \in DOMAIN state.sheets :
            isPrefix(state.sheets[k].val.rows, rowsAt(state'.sheets, state.sheets[k].key))
     /\ \A i \in DOMAIN workers :
          capturesChunk(i) =>
            /\ rowsAt(state'.sheets, sheetKey(Outbox(workers[i])[workers[i].delivered + 1].value))
                 = rowsAt(state.sheets, sheetKey(Outbox(workers[i])[workers[i].delivered + 1].value))
                     \o Outbox(workers[i])[workers[i].delivered + 1].value.rows
            /\ \A k \in DOMAIN state'.sheets :
                 state'.sheets[k].key
                     # sheetKey(Outbox(workers[i])[workers[i].delivered + 1].value)
                   => state'.sheets[k].val.rows = rowsAt(state.sheets, state'.sheets[k].key)
    ]_vars

\* two chunks have been captured for one key
C10_Witness ==
  \E k \in DOMAIN state.sheets :
    /\ state.sheets[k].key = "Upload::Data"
    /\ Len(state.sheets[k].val.rows) = 2 * Len(sampleSheet.rows)


\* the step handles the next message of parse i, its error message
deliversError(i) ==
  /\ i \in DOMAIN workers'
  /\ workers'[i].delivered = workers[i].delivered + 1
  /\ Outbox(workers[i])[workers[i].delivered + 1].type = "error"

(* C11: when the parse of an uploaded file ends in an error, the step that
   handles the error message stores the message in the error slot whatever
   the slot held, it is the last message of that parse and adds no row, it
   leaves every other parse as it was, and the next file of the same upload,
   if it has not been started yet, is started. *)
C11_ErrorEndsThatFileOnly ==
  [][\A i \in DOMAIN workers :
       deliversError(i) =>
         /\ state'.error = Some(Outbox(workers[i])[workers[i].delivered + 1].error)
         /\ workers'[i].delivered = Len(Outbox(workers[i]))
         /\ state'.sheets = state.sheets
         /\ state'.detected = state.detected
         /\ \A j \in DOMAIN workers : j # i => workers'[j] = workers[j]
         /\ IF workers[i].rest = <<>> THEN Len(workers') = Len(workers)
            ELSE /\ Len(workers') = Len(workers) + 1
                 /\ workers'[Len(workers')]
                      = newWorker("file", Head(workers[i].rest), Tail(workers[i].rest), i)
    ]_vars

\* the first file of an upload could not be decoded, its message is in the
\* error slot, and every message of the next file of the upload has been
\* handled and its rows are buffered
C11_Witness ==
  \E i, j \in DOMAIN workers :
    /\ decodeFails(workers[i]) /\ workers[i].delivered = 1
    /\ workers[j].prev = i /\ workers[j].ran
    /\ workers[j].delivered = Len(Outbox(workers[j]))
    /\ state.error = Some(File(workers[i].file).error)
    /\ Len(rowsAt(state.sheets, "a.xlsx::S1")) = 2


\* the only parse since the page was loaded is one dummy parse
dummyOnly == Len(workers) = 1 /\ workers[1].kind = "dummy"

\* the mapping of the dummy sheet is the suggested one
dummyMappingUnedited ==
  /\ Len(state.mappings) = 1
  /\ state.mappings[1].val.suggestions = suggestionsFor[dummyOutbox[2].value.headers]

dummyProducts ==
  [k \in DOMAIN dummyOutbox[2].value.rows |->
     <<dummyOutbox[2].value.rows[k]["Product"].s, dummyOutbox[2].value.rows[k]["Category"].s>>]

(* C12: the dummy parse posts meta, one chunk with the three fixed rows and
   done; and as long as the dummy parse is the only parse, the chunk leaves
   the three rows buffered at step 1 or later, Apply Mapping with the
   suggested mapping stores three records with no field missing and a
   status that is not red and moves to step 2, Compute KPIs on three
   records stores three KPIs and moves to step 3, and Lock Baseline on three
   KPIs stores a snapshot of count 3, moves to step 4 and enables the CSV
   download. *)
C12_DummyFlowReachesExport ==
  [][/\ [k \in DOMAIN dummyOutbox |-> dummyOutbox[k].type] = <<"meta", "sheet", "done">>
     /\ dummyProducts = << <<"Cooker A", "Cooking">>, <<"Fridge B", "Cooling">>,
                           <<"Washer C", "Washing">> >>
     /\ dummyOnly' =>
          /\ event' = [op |-> "deliver", arg |-> "sheet"] =>
               /\ state'.stepIndex >= 1
               /\ rowsAt(state'.sheets, "Upload::Data") = dummyOutbox[2].value.rows
               /\ dummyMappingUnedited'
               /\ missingTargets(state'.mappings[1].val) = <<>>
          /\ event' = [op |-> "apply", arg |-> "done"] /\ dummyMappingUnedited =>
               /\ Len(state'.records) = 3
               /\ state'.dataQuality.some /\ state'.dataQuality.v.status # "red"
               /\ state'.stepIndex = 2
          /\ event' = [op |-> "compute", arg |-> "done"] /\ Len(state.records) = 3 =>
               /\ Len(liveKpis(Here)') = 3
               /\ state'.stepIndex = 3
          /\ event' = [op |-> "lock", arg |-> "done"] /\ Len(liveKpis(Here)) = 3 =>
               /\ state'.lockedSnapshot.some
               /\ state'.lockedSnapshot.v.totals.count = 3
               /\ state'.stepIndex = 4
               /\ downloadEnabled(Here)'
    ]_vars

\* the dummy flow has ended: the baseline of the three dummy products has
\* just been locked at step 4 and the CSV download is enabled
C12_Witness ==
  /\ dummyOnly /\ dummyMappingUnedited
  /\ event = [op |-> "lock", arg |-> "done"]
  /\ state.stepIndex = 4
  /\ state.lockedSnapshot.some /\ state.lockedSnapshot.v.totals.count = 3
  /\ Len(state.records) = 3
  /\ [k \in 1..3 |-> state.records[k]["Product"].s] = <<"Cooker A", "Fridge B", "Washer C">>
  /\ downloadEnabled(Here)


(* C13: for any header list suggestMapping returns exactly one suggestion
   per canonical field, ten in all, always in the same field order, each
   with a confidence between 0 and 1 inclusive. *)
C13_OneSuggestionPerField ==
  event.op = "suggestMapping" =>
    /\ [i \in DOMAIN event.out |-> event.out[i].target]
         = <<"Product", "Category", "Transport_kgCO2e", "Materials_kgCO2e",
             "Production_kgCO2e", "Use_kWh_per_year", "Water_L", "Recycling_Quota_%",
             "Local_Quota_%", "EU_Label">>
    /\ \A i \in DOMAIN event.out :
         /\ RatLe(Num(0), event.out[i].confidence)
         /\ RatLe(event.out[i].confidence, Num(1))

\* suggestMapping has returned for a header list with a header that is a
\* field's name itself and a header that matches no field
C13_Witness ==
  /\ event.op = "suggestMapping"
  /\ event.arg = <<"Notes", "Product">>
  /\ event.out[1].fromHeader = Header("Product")
  /\ event.out[1].confidence = Num(1)
  /\ event.out[10].fromHeader = NoHeader
  /\ event.out[10].confidence = Num(0)


\* the header the mapping gives for field t, or NoHeader
chosenHeader(mapping, t) ==
  IF \E i \in DOMAIN mapping.suggestions :
       mapping.suggestions[i].target = t /\ mapping.suggestions[i].fromHeader.some
  THEN (CHOOSE x \in {mapping.suggestions[i] : i \in DOMAIN mapping.suggestions} :
          x.target = t /\ x.fromHeader.some).fromHeader
  ELSE NoHeader

(* C14, as the claim states it: applyMapping lists in missing every
   canonical field, required or optional, that has no chosen header in the
   mapping, and only those. *)
C14_MissingListsEveryField ==
  event.op = "applyMapping" =>
    event.out.missing
      = SelectSeq(<<"Product", "Category", "Transport_kgCO2e", "Materials_kgCO2e",
                    "Production_kgCO2e", "Use_kWh_per_year", "Water_L", "Recycling_Quota_%",
                    "Local_Quota_%", "EU_Label">>,
                  LAMBDA t : ~chosenHeader(event.arg.mapping, t).some)

(* C14, amended: applyMapping lists in missing every required canonical
   field (Product, Category, Transport_kgCO2e, Materials_kgCO2e,
   Production_kgCO2e, Use_kWh_per_year) that has no chosen header in the
   mapping, in that order, and nothing else: an optional field is never
   listed; the list is the same for every row list. *)
C14_MissingListsRequiredFields ==
  event.op = "applyMapping" =>
    event.out.missing
      = SelectSeq(<<"Product", "Category", "Transport_kgCO2e", "Materials_kgCO2e",
                    "Production_kgCO2e", "Use_kWh_per_year">>,
                  LAMBDA t : ~chosenHeader(event.arg.mapping, t).some)

\* applyMapping has returned for a row and a mapping in which one required
\* field has a header and no optional field has one
C14_Witness ==
  /\ event.op = "applyMapping"
  /\ Len(event.arg.rows) = 1
  /\ chosenHeader(event.arg.mapping, "Product").some
  /\ ~chosenHeader(event.arg.mapping, "Water_L").some
  /\ event.out.missing = <<"Category", "Transport_kgCO2e", "Materials_kgCO2e",
                           "Production_kgCO2e", "Use_kWh_per_year">>

\* the cell that the mapping reads for field t in the first row
cellRead(t) == Get(event.arg.rows[1], chosenHeader(event.arg.mapping, t).h)

numericFields ==
  {"Transport_kgCO2e", "Materials_kgCO2e", "Production_kgCO2e", "Use_kWh_per_year", "Water_L",
   "Recycling_Quota_%", "Local_Quota_%"}

(* C15: a mapped numeric field whose cell is digit text coerces to its
   value, a comma being a thousands separator: "1,200" becomes 1200, "50"
   becomes 50, "100" becomes 100. *)
C15_DigitTextCoercion ==
  event.op = "applyMapping" /\ Len(event.arg.rows) = 1 =>
    \A t \in numericFields :
      chosenHeader(event.arg.mapping, t).some =>
        /\ cellRead(t) = StrV("1,200") => event.out.records[1][t] = NumV(Num(1200))
        /\ cellRead(t) = StrV("50") => event.out.records[1][t] = NumV(Num(50))
        /\ cellRead(t) = StrV("100") => event.out.records[1][t] = NumV(Num(100))

(* C16: a mapped numeric field whose cell is text without a digit ("abc",
   "n/a"), or is empty or absent, coerces to null, never to a number. *)
C16_NonNumericCoercion ==
  event.op = "applyMapping" /\ Len(event.arg.rows) = 1 =>
    \A t \in numericFields :
      chosenHeader(event.arg.mapping, t).some
        /\ cellRead(t) \in {StrV("abc"), StrV("n/a"), StrV(""), Null, Undefined}
      => event.out.records[1][t] = Null


\* the issue the claim gives for value v: its severity and message, or none
issueOfValue(v) ==
  IF v = Null \/ v = NumV(NaN) THEN <<"error", "missing required value">>
  ELSE IF RatLt(numOf(v), Num(0)) THEN <<"error", "negative value">>
  ELSE IF RatGt(numOf(v), Num(10000000)) THEN <<"warning", "suspiciously large">>
  ELSE <<>>

fourFields == <<"Transport_kgCO2e", "Materials_kgCO2e", "Production_kgCO2e", "Use_kWh_per_year">>

\* the pairs (record position, field) in order of record and then of field,
\* from position k on
RECURSIVE recordFieldPairs(_, _)
recordFieldPairs(n, k) ==
  IF k > n THEN <<>>
  ELSE [j \in 1..4 |-> <<k, fourFields[j]>>] \o recordFieldPairs(n, k + 1)

\* the issues the claim gives for the records
claimedIssues(records) ==
  LET withIssue == SelectSeq(recordFieldPairs(Len(records), 1),
                             LAMBDA p : issueOfValue(records[p[1]][p[2]]) # <<>>)
  IN  [i \in DOMAIN withIssue |->
         [rowIndex |-> withIssue[i][1], field |-> withIssue[i][2],
          severity |-> issueOfValue(records[withIssue[i][1]][withIssue[i][2]])[1],
          message |-> issueOfValue(records[withIssue[i][1]][withIssue[i][2]])[2]]]

(* C17: validate reports, for every record and each of the four required
   numeric fields, at most one issue: an error 'missing required value' when
   the value is null or NaN, otherwise an error 'negative value' when it is
   below 0, otherwise a warning 'suspiciously large' when it is above 1e7,
   otherwise none; rowIndex is the record's 1-based position and the issues
   are ordered by record and then by field.  The message texts are compared
   without regard to letter case. *)
C17_OneIssuePerField ==
  event.op = "validate" =>
    [i \in DOMAIN event.out.issues |->
       [event.out.issues[i] EXCEPT !.message = Str(toLowerCase(chars[@]))]]
      = claimedIssues(event.arg)

\* validate has returned for the record of the repository's test followed by
\* a record with a warning: three issues for row 1, then one for row 2
C17_Witness ==
  /\ event.op = "validate"
  /\ Len(event.arg) = 2
  /\ event.arg[1]["Transport_kgCO2e"] = Null
  /\ event.arg[1]["Materials_kgCO2e"] = NumV(Num(-5))
  /\ event.arg[1]["Production_kgCO2e"] = NumV(Num(0))
  /\ event.arg[1]["Use_kWh_per_year"] = NumV(Num(100000000))
  /\ [i \in DOMAIN event.out.issues |->
        <<event.out.issues[i].rowIndex, event.out.issues[i].field, event.out.issues[i].severity>>]
       = << <<1, "Transport_kgCO2e", "error">>, <<1, "Materials_kgCO2e", "error">>,
            <<1, "Use_kWh_per_year", "warning">>, <<2, "Use_kWh_per_year", "warning">> >>

(* C18: the status validate returns is red if and only if the issue list
   has at least one error, amber if and only if it has no error and at least
   one warning, and green if and only if the issue list is empty, as it is
   for an empty record list. *)
C18_StatusFromIssues ==
  event.op = "validate" =>
    LET hasError == \E i \in DOMAIN event.out.issues : event.out.issues[i].severity = "error"
        hasWarning == \E i \in DOMAIN event.out.issues : event.out.issues[i].severity = "warning"
    IN  /\ event.out.status \in {"red", "amber", "green"}
        /\ event.out.status = "red" <=> hasError
        /\ event.out.status = "amber" <=> (~hasError /\ hasWarning)
        /\ event.out.status = "green" <=> event.out.issues = <<>>
        /\ event.arg = <<>> => event.out.status = "green"

\* validate has returned red for a record list with an error and a warning
C18_Witness ==
  /\ event.op = "validate"
  /\ event.out.status = "red"
  /\ \E i \in DOMAIN event.out.issues : event.out.issues[i].severity = "warning"
  /\ \E i \in DOMAIN event.out.issues : event.out.issues[i].severity = "error"


\* the value of a stage field of the k-th record of the call, null counted as 0
stageOf(k, f) ==
  IF event.arg.records[k][f] = Null THEN Num(0) ELSE numOf(event.arg.records[k][f])

\* the lifetime configured for the category of the k-th record, or 10
lifeOf(k) ==
  IF event.arg.records[k]["Category"].s \in DOMAIN event.arg.lifetimeYears
  THEN event.arg.lifetimeYears[event.arg.records[k]["Category"].s]
  ELSE Num(10)

\* use_kg, total and share of the k-th record as the claim defines them
useKgOf(k) ==
  RatDiv(RatMul(RatMul(stageOf(k, "Use_kWh_per_year"), numOf(event.arg.grid.factor)), lifeOf(k)),
         Num(1000))

totalOf(k) ==
  RatAdd(RatAdd(RatAdd(stageOf(k, "Transport_kgCO2e"), stageOf(k, "Materials_kgCO2e")),
                stageOf(k, "Production_kgCO2e")),
         useKgOf(k))

shareOf(k) ==
  IF RatGt(totalOf(k), Num(0)) THEN RatMul(RatDiv(useKgOf(k), totalOf(k)), Num(100)) ELSE Num(0)

(* C19: computeKPIs returns one KPI per record in record order, with
   use_kg = (Use_kWh_per_year, or 0 when null) * grid factor * life / 1000
   where life is the lifetime configured for the record's category, or 10,
   total = transport + materials + production + use_kg with a null stage
   counted as 0, and share = use_kg / total * 100 when total > 0 and 0
   otherwise; each value is reported to two decimals.  For transport 10,
   materials 20, production 30, use 100 kWh, factor 0.25 and life 10 the use
   is 0.25, the total 60.25 and the share above 0. *)
C19_KpiFormulas ==
  event.op = "computeKPIs" =>
    /\ Len(event.out) = Len(event.arg.records)
    /\ \A k \in DOMAIN event.arg.records :
         /\ event.out[k].Product = event.arg.records[k]["Product"].s
         /\ event.out[k].Category = event.arg.records[k]["Category"].s
         /\ event.out[k].UsePhase_CO2e = round(useKgOf(k))
         /\ event.out[k].Total_CO2e = round(totalOf(k))
         /\ event.out[k].UsePhase_Share_Pct = round(shareOf(k))
         /\ (/\ event.arg.records[k]
                  = mappedRecord("X", "Cooking", NumV(Num(10)), NumV(Num(20)), NumV(Num(30)),
                                 NumV(Num(100)))
             /\ event.arg.grid.factor = NumV(Rat(1, 4))
             /\ lifeOf(k) = Num(10))
            => /\ event.out[k].UsePhase_CO2e = Rat(1, 4)
               /\ event.out[k].Total_CO2e = Rat(241, 4)
               /\ RatGt(event.out[k].Total_CO2e, Num(60))
               /\ RatGt(event.out[k].UsePhase_Share_Pct, Num(0))

\* computeKPIs has returned for two records, the second with every stage
\* null and a category without a configured lifetime for the first
C19_Witness ==
  /\ event.op = "computeKPIs"
  /\ Len(event.out) = 2
  /\ event.arg.records[1]["Materials_kgCO2e"] = Null
  /\ event.arg.records[1]["Category"].s \notin DOMAIN event.arg.lifetimeYears
  /\ RatGt(event.out[1].UsePhase_CO2e, Num(0))
  /\ event.out[2].Total_CO2e = Num(0)
  /\ event.out[2].UsePhase_Share_Pct = Num(0)

\* the three statuses of the k-th record as the claim defines them
claimedStatus(k) ==
  [UsePhase |->
     IF RatGe(shareOf(k), event.arg.thresholds.usePhasePercentRed) THEN "red"
     ELSE IF RatGe(shareOf(k), RatMul(Rat(7, 10), event.arg.thresholds.usePhasePercentRed))
          THEN "amber"
     ELSE "green",
   Materials |->
     IF RatGe(stageOf(k, "Materials_kgCO2e"), event.arg.thresholds.materialsKgRed) THEN "red"
     ELSE IF RatGe(stageOf(k, "Materials_kgCO2e"),
                   RatMul(Rat(7, 10), event.arg.thresholds.materialsKgRed))
          THEN "amber"
     ELSE "green",
   Production |->
     IF RatLe(stageOf(k, "Production_kgCO2e"), event.arg.thresholds.productionKgGreen) THEN "green"
     ELSE IF RatLe(stageOf(k, "Production_kgCO2e"),
                   RatMul(Rat(3, 2), event.arg.thresholds.productionKgGreen))
          THEN "amber"
     ELSE "red"]

(* C20: computeKPIs derives the three statuses independently: UsePhase is
   red when share >= usePhasePercentRed, amber when share >= 0.7 times it,
   else green; Materials is red when materials >= materialsKgRed, amber when
   materials >= 0.7 times it, else green; Production is green when
   production <= productionKgGreen, amber when production <= 1.5 times it,
   else red; a value on a limit falls on the side the comparison gives, and
   a null stage is judged as 0. *)
C20_StatusThresholds ==
  event.op = "computeKPIs" =>
    \A k \in DOMAIN event.arg.records : event.out[k].status = claimedStatus(k)

\* computeKPIs has returned for a record with materials and production on
\* a limit (140 of 200 and 150 of 100), followed by a record with every
\* stage null
C20_Witness ==
  /\ event.op = "computeKPIs"
  /\ Len(event.out) = 2
  /\ event.arg.records[1]["Materials_kgCO2e"] = NumV(Num(140))
  /\ event.arg.records[1]["Production_kgCO2e"] = NumV(Num(150))
  /\ event.out[1].status.Materials = "amber"
  /\ event.out[1].status.Production = "amber"
  /\ event.arg.records[2]["Production_kgCO2e"] = Null
  /\ event.out[2].status.UsePhase = "green"
  /\ event.out[2].status.Materials = "green"
  /\ event.out[2].status.Production = "green"


\* the score of a row as the claim defines it: 1 for each cell whose
\* lowercased text contains a keyword plus 0.2 for each non-empty cell
claimedCellScore(cell) ==
  LET v == toLowerCase(stringChars(Coalesce(cell, StrV(""))))
  IN  RatAdd(IF \E k \in DOMAIN keywordHints : includes(v, chars[keywordHints[k]])
             THEN Num(1) ELSE Num(0),
             IF Len(v) > 0 THEN Rat(1, 5) ELSE Num(0))

RECURSIVE claimedRowScore(_, _)
claimedRowScore(r, k) ==
  IF k = 0 THEN Num(0) ELSE RatAdd(claimedRowScore(r, k - 1), claimedCellScore(r[k]))

\* the score of the row at the 0-based index i of the call
scoreAt(i) == claimedRowScore(event.arg[i + 1], Len(event.arg[i + 1]))

(* C21: autoDetectHeaderRow returns the index of the row with the maximum
   score among at most the first 20 rows, the lowest such index on a tie,
   never an index from 20 on, and 0 for an empty row list; the score of a
   row is the sum over its cells of 1 for a keyword in the lowercased text
   plus 0.2 for a non-empty cell.  For the rows [x, y] and [Product,
   Transport_kgCO2e, Use_kWh_per_year] the result is 1. *)
C21_HeaderRowIsFirstMaximum ==
  event.op = "autoDetectHeaderRow" =>
    LET n == IF Len(event.arg) < HeaderScanLimit THEN Len(event.arg) ELSE HeaderScanLimit
    IN  /\ n = 0 => event.out = 0
        /\ n > 0 =>
             /\ event.out \in 0..(n - 1)
             /\ \A i \in 0..(n - 1) : RatGe(scoreAt(event.out), scoreAt(i))
             /\ \A i \in 0..(event.out - 1) : RatLt(scoreAt(i), scoreAt(event.out))
        /\ event.arg = <<<<StrV("x"), StrV("y")>>,
                         <<StrV("Product"), StrV("Transport_kgCO2e"), StrV("Use_kWh_per_year")>>>>
             => event.out = 1


\* the rows of the chunks of sheet s among the first k messages, in order
RECURSIVE chunkRowsOf(_, _, _)
chunkRowsOf(out, s, k) ==
  IF k = 0 THEN <<>>
  ELSE chunkRowsOf(out, s, k - 1)
         \o (IF out[k].type = "sheet" /\ out[k].value.sheet = s THEN out[k].value.rows ELSE <<>>)

\* the header texts of a sheet: the cells of its detected header row
headersOfSheet(aoa) ==
  LET h == autoDetectHeaderRow(aoa)
  IN  IF h < Len(aoa)
      THEN [i \in DOMAIN aoa[h + 1] |-> jsString(Coalesce(aoa[h + 1][i], StrV("")))]
      ELSE <<>>

\* the rows of a sheet that follow its detected header row, each keyed by the
\* header texts
keyedRows(headers, aoa, h) ==
  [k \in 1..(IF Len(aoa) > h + 1 THEN Len(aoa) - h - 1 ELSE 0) |->
     rowObject(headers, aoa[h + 1 + k])]

rowsBelowHeader(aoa) == keyedRows(headersOfSheet(aoa), aoa, autoDetectHeaderRow(aoa))

\* the sheets handleParse converts: those before the first one that throws
convertedSheets(file) ==
  IF ~file.decodes THEN {}
  ELSE {i \in DOMAIN file.sheetNames :
          \A j \in 1..i : ~file.sheets[file.sheetNames[j]].throws}

(* C22: every chunk handleParse posts carries between 1 and 1000 rows with
   the detected header-row index and the headers of its sheet; the chunks
   come in the order of the workbook's sheets; the rows of the chunks of a
   sheet, taken in order, are exactly the rows below the sheet's detected
   header row; and a sheet without a row below its header row has no chunk. *)
C22_ChunksPartitionDataRows ==
  event.op = "handleParse" =>
    LET file == event.arg
        out == event.out
        pos(s) == CHOOSE i \in DOMAIN file.sheetNames : file.sheetNames[i] = s
        aoaOf(s) == file.sheets[s].aoa
    IN  /\ \A k \in DOMAIN out : out[k].type = "sheet" =>
             /\ Len(out[k].value.rows) >= 1
             /\ Len(out[k].value.rows) <= chunkSize
             /\ \E i \in convertedSheets(file) : file.sheetNames[i] = out[k].value.sheet
             /\ out[k].value.headerRowIndex = autoDetectHeaderRow(aoaOf(out[k].value.sheet))
             /\ out[k].value.headers = headersOfSheet(aoaOf(out[k].value.sheet))
        /\ \A j, k \in DOMAIN out :
             j < k /\ out[j].type = "sheet" /\ out[k].type = "sheet"
               => pos(out[j].value.sheet) <= pos(out[k].value.sheet)
        /\ \A i \in convertedSheets(file) :
             /\ chunkRowsOf(out, file.sheetNames[i], Len(out))
                  = rowsBelowHeader(aoaOf(file.sheetNames[i]))
             /\ rowsBelowHeader(aoaOf(file.sheetNames[i])) = <<>>
                  => \A k \in DOMAIN out :
                       out[k].type = "sheet" => out[k].value.sheet # file.sheetNames[i]

\* a workbook whose first sheet fills two chunks and one row of a third and
\* whose second sheet has a header row alone: meta, three chunks, done
C22_Witness ==
  /\ event.op = "handleParse"
  /\ event.arg = workbook(<<"S2", "S1">>, <<numberedSheet(2 * chunkSize + 1), numberedSheet(0)>>)
  /\ Len(event.out) = 5
  /\ \A k \in 2..4 : event.out[k].type = "sheet" /\ event.out[k].value.sheet = "S2"
  /\ Len(event.out[2].value.rows) = chunkSize
  /\ Len(event.out[3].value.rows) = chunkSize
  /\ Len(event.out[4].value.rows) = 1
  /\ event.out[4].value.rows[1]["Product"] = NumV(Num(2 * chunkSize + 1))
  /\ event.out[5].type = "done"


\* the score of the claim for header h and the field of index i
claimedHeaderScore(i, h) ==
  LET hn == normalizeHeader(h)
      syns == targetSyns(i)
      contains == \E j \in DOMAIN syns : includes(hn, syns[j])
      equals == \E j \in DOMAIN syns : hn = syns[j]
  IN  RatAdd(IF contains THEN Num(1) ELSE Num(0), IF equals THEN Rat(1, 2) ELSE Num(0))

(* C23: for each field, suggestMapping suggests the first header of the
   highest score when that score is above zero, with confidence min(1, score),
   where a header scores 1 when it contains a synonym of the field (or the
   field's name) and 1/2 more when it equals one, after normalization; when
   no header scores above zero the suggestion is no header and confidence 0.
   So a header equal to a synonym is suggested rather than any header that
   only contains one, wherever it stands. *)
C23_FirstHeaderOfHighestScore ==
  event.op = "suggestMapping" =>
    \A i \in DOMAIN synonymTable :
      LET headers == event.arg
          sug == event.out[i]
          sc(k) == claimedHeaderScore(i, headers[k])
          positive == {k \in DOMAIN headers : RatGt(sc(k), Num(0))}
          top == {k \in DOMAIN headers : \A m \in DOMAIN headers : RatGe(sc(k), sc(m))}
          first == CHOOSE k \in top : \A m \in top : k <= m
          exacts == {k \in DOMAIN headers :
                       \E j \in DOMAIN targetSyns(i) : normalizeHeader(headers[k]) = targetSyns(i)[j]}
      IN  /\ positive = {} => sug.fromHeader = NoHeader /\ sug.confidence = Num(0)
          /\ positive # {} =>
               /\ sug.fromHeader = Header(headers[first])
               /\ sug.confidence = RatMin(Num(1), sc(first))
          /\ exacts # {} => \E k \in exacts : sug.fromHeader = Header(headers[k])

\* a header that only contains a synonym of Product stands before one that
\* equals one: the second is suggested for Product, the first for Category
C23_Witness ==
  /\ event.op = "suggestMapping"
  /\ event.arg = <<"Model Type", "Product">>
  /\ event.out[1].fromHeader = Header("Product")
  /\ event.out[1].confidence = Num(1)
  /\ event.out[2].fromHeader = Header("Model Type")


emptyCells == {Undefined, Null, StrV("")}

(* C24: applyMapping gives Product the empty text when its cell is empty or
   absent, whether Product has a chosen header (the cell under that header)
   or none (the cell under "Product"), and gives EU_Label null when the cell
   under its chosen header is empty or absent. *)
C24_EmptyProductAndLabel ==
  event.op = "applyMapping" =>
    \A k \in DOMAIN event.arg.rows :
      LET r == event.arg.rows[k]
          product == fieldFrom(event.arg.mapping, "Product")
          label == fieldFrom(event.arg.mapping, "EU_Label")
          rec == event.out.records[k]
      IN  /\ product.some /\ Get(r, product.h) \in emptyCells => rec["Product"] = StrV("")
          /\ ~product.some /\ Get(r, "Product") \in emptyCells => rec["Product"] = StrV("")
          /\ label.some /\ Get(r, label.h) \in emptyCells => rec["EU_Label"] = Null
          /\ ~label.some => rec["EU_Label"] = Null


\* x to two decimals, a half rounded away from zero
halfAwayFromZero(x) ==
  LET scaled == RatMul(x, Num(100))
      magnitude == (2 * Abs(scaled.n) + scaled.d) \div (2 * scaled.d)
  IN  RatDiv(Num(IF scaled.n < 0 THEN -magnitude ELSE magnitude), Num(100))

(* C25: every number computeKPIs reports (the use-phase emissions, the
   total, the share and the four stage values) is the exact value to two
   decimals with a half rounded away from zero, for either sign: a stage
   value of -0.125 is reported as -0.13 and one of 0.125 as 0.13. *)
C25_HalvesAwayFromZero ==
  event.op = "computeKPIs" =>
    \A k \in DOMAIN event.arg.records :
      /\ event.out[k].UsePhase_CO2e = halfAwayFromZero(useKgOf(k))
      /\ event.out[k].Total_CO2e = halfAwayFromZero(totalOf(k))
      /\ event.out[k].UsePhase_Share_Pct = halfAwayFromZero(shareOf(k))
      /\ event.out[k].stageBreakdown.Transport = halfAwayFromZero(stageOf(k, "Transport_kgCO2e"))
      /\ event.out[k].stageBreakdown.Materials = halfAwayFromZero(stageOf(k, "Materials_kgCO2e"))
      /\ event.out[k].stageBreakdown.Production = halfAwayFromZero(stageOf(k, "Production_kgCO2e"))
      /\ event.out[k].stageBreakdown.Use = halfAwayFromZero(useKgOf(k))
      /\ event.arg.records[k]["Transport_kgCO2e"] = NumV(Rat(-1, 8))
           => event.out[k].stageBreakdown.Transport = Rat(-13, 100)
      /\ event.arg.records[k]["Transport_kgCO2e"] = NumV(Rat(1, 8))
           => event.out[k].stageBreakdown.Transport = Rat(13, 100)


RECURSIVE totalOfFirst(_, _)
\* the sum of Total_CO2e over the first k entries of a KPI list
totalOfFirst(kpis, k) ==
  IF k = 0 THEN Num(0) ELSE RatAdd(totalOfFirst(kpis, k - 1), kpis[k].Total_CO2e)

(* C26: a call of store.lock leaves a snapshot made by that call in place of
   any earlier one: its time is that of the call, its KPI list is the live
   KPI list at the call, its totals are the number of those KPIs and the sum
   of their Total_CO2e, and its thresholds are those in force at the call. *)
C26_LockSnapshotsLiveState ==
  [][event'.op = "lock" /\ event'.arg = "done" =>
       /\ state'.lockedSnapshot.some
       /\ state'.lockedSnapshot.v.at = lockTime
       /\ state.lockedSnapshot.some => state'.lockedSnapshot.v.at # state.lockedSnapshot.v.at
       /\ heap'.kpis[state'.lockedSnapshot.v.kpis] = heap.kpis[state.kpis]
       /\ state'.lockedSnapshot.v.totals.count = Len(heap.kpis[state.kpis])
       /\ state'.lockedSnapshot.v.totals.totalCO2e
            = totalOfFirst(heap.kpis[state.kpis], Len(heap.kpis[state.kpis]))
       /\ heap'.thresholds[state'.lockedSnapshot.v.thresholds] = heap.thresholds[state.thresholds]
    ]_vars

\* a second lock, after the KPI list and the thresholds were set, has
\* replaced the snapshot of the first
C26_Witness ==
  /\ event.op = "lock"
  /\ state.lockedSnapshot.some
  /\ state.lockedSnapshot.v.at = 2
  /\ state.lockedSnapshot.v.totals.count = 2
  /\ RatGt(state.lockedSnapshot.v.totals.totalCO2e, Num(0))
  /\ heap.thresholds[state.lockedSnapshot.v.thresholds] \in ThresholdInputs


(* C27: a click on Apply Mapping that is not ignored leaves as records
   exactly one record for each row buffered under the first captured sheet
   key, in buffer order, each mapped by the mapping stored for that key at the
   click; nothing of the records there were before remains, and the rows
   under another sheet key give no record. *)
C27_ApplyReplacesRecords ==
  [][event'.op = "apply" /\ event'.arg = "done" =>
       LET key == state.mappings[1].key
           mapping == state.mappings[1].val
           held == {i \in DOMAIN state.sheets : state.sheets[i].key = key}
           rows == IF held = {} THEN <<>> ELSE state.sheets[CHOOSE i \in held : TRUE].val.rows
       IN  /\ Len(state'.records) = Len(rows)
           /\ \A k \in DOMAIN rows : state'.records[k] = mapRow(rows[k], mapping)
    ]_vars

\* the mapping was applied, KPIs were computed, the user went back, took the
\* header of Transport_kgCO2e away and applied again: the records now have no
\* transport value
C27_Witness ==
  /\ event.op = "apply"
  /\ event.arg = "done"
  /\ Len(liveKpis(Here)) > 0
  /\ ~state.mappings[1].val.suggestions[3].fromHeader.some
  /\ Len(state.records) = 2
  /\ \A k \in DOMAIN state.records : state.records[k]["Transport_kgCO2e"] = Null
  /\ liveKpis(Here)[1].stageBreakdown.Transport = Num(10)


(* C28: in every reachable state, after a reload too, step 4 is shown only
   with a locked snapshot, a step from 3 on only with a KPI list that is not
   empty, and a step from 2 on only with mapped records and a stored
   data-quality status that is not red. *)
C28_GatePostconditions ==
  /\ state.stepIndex = 4 => state.lockedSnapshot.some
  /\ state.stepIndex >= 3 => Len(liveKpis(Here)) > 0
  /\ state.stepIndex >= 2 =>
       /\ Len(state.records) > 0
       /\ state.dataQuality.some
       /\ state.dataQuality.v.status # "red"


\* the stored mapping of index i is one the user changed: its suggestions are
\* not those suggested for the headers of its sheet
userChanged(i) ==
  LET key == state.mappings[i].key
  IN  /\ ObjHas(state.sheets, key)
      /\ state.mappings[i].val.suggestions # suggestionsFor[ObjGet(state.sheets, key).headers]

(* C29: a message of a worker leaves alone every stored mapping in which
   the user has changed a chosen header: a chunk of the same sheet that
   arrives after the change extends the row buffer and the mapping stored for
   the sheet stays as the user left it. *)
C29_ChunkKeepsUserChoice ==
  [][event'.op = "deliver" =>
       \A i \in DOMAIN state.mappings :
         userChanged(i) =>
           /\ ObjHas(state'.mappings, state.mappings[i].key)
           /\ ObjGet(state'.mappings, state.mappings[i].key) = state.mappings[i].val
    ]_vars


(* C30: a call of a store method other than lock (setKPIs, setThresholds,
   setGridFactor, setLifetime, setRecords, setMapping, setSheet, addDetected,
   navigation, nextStep, prevStep) leaves the locked snapshot as it was: its
   time, the values of its KPI list, its totals and its thresholds. *)
C30_SnapshotUnchangedByOtherMethods ==
  [][state.lockedSnapshot.some /\ event'.op # "lock" =>
       /\ state'.lockedSnapshot.some
       /\ state'.lockedSnapshot.v.at = state.lockedSnapshot.v.at
       /\ state'.lockedSnapshot.v.totals = state.lockedSnapshot.v.totals
       /\ heap'.kpis[state'.lockedSnapshot.v.kpis] = heap.kpis[state.lockedSnapshot.v.kpis]
       /\ heap'.thresholds[state'.lockedSnapshot.v.thresholds]
            = heap.thresholds[state.lockedSnapshot.v.thresholds]
    ]_vars

\* after a lock of the default thresholds and of no KPI, the KPI list and
\* the thresholds, the grid factor, a lifetime, the records, a mapping, a
\* sheet and the detected products were set and the step was changed
C30_Witness ==
  /\ event.op # "lock"
  /\ state.lockedSnapshot.some
  /\ state.lockedSnapshot.v.totals.count = 0
  /\ heap.kpis[state.lockedSnapshot.v.kpis] = <<>>
  /\ heap.thresholds[state.lockedSnapshot.v.thresholds] = defaultThresholds
  /\ Len(liveKpis(Here)) > 0
  /\ liveThresholds(Here) \in ThresholdInputs
  /\ state.gridFactor \in GridInputs
  /\ state.lifetimeYears["Cooking"] = Num(15)
  /\ state.records # <<>>
  /\ state.mappings # <<>>
  /\ state.sheets # <<>>
  /\ state.detected # <<>>
  /\ state.stepIndex = 2


(* C31: in every reachable state stepIndex is an integer from 0 to 4,
   whatever calls of nextStep and prevStep, navigation clicks, other store
   calls and reloads led to it: the wizard has a step to render. *)
C31_StepIndexInRange ==
  /\ state.stepIndex \in 0..MaxStep
  /\ storage.some => storage.v.stepIndex \in 0..MaxStep

\* the page was loaded again at the last step, which the store had written
\* to sessionStorage: the step index read back is 4, with no snapshot
C31_Witness ==
  /\ event.op = "reload"
  /\ state.stepIndex = MaxStep
  /\ storage.some
  /\ storage.v.stepIndex = MaxStep
  /\ ~state.lockedSnapshot.some

=============================================================================
